---- MODULE Spec2Model ----
(***************************************************************************)
(* Model of the process and resource supervisor of shellflow:             *)
(*   - the output pump of a PTY session (src-tauri/src/pty.rs),           *)
(*   - the shutdown cascade guard (src-tauri/src/pty.rs),                 *)
(*   - the watcher registries and their tasks (src-tauri/src/watcher.rs). *)
(***************************************************************************)
EXTENDS Integers, Sequences, FiniteSets, TLC

(***************************************************************************)
(* Bounds of the model.                                                    *)
(***************************************************************************)
\* longest byte stream a child writes to its PTY
MaxStream == 4
\* largest number of bytes one read returns
MaxRead == 3

\* the bytes a child writes: 'a', 0xC3 (lead of 2), 0xA9 (continuation),
\* 0xE2 (lead of 3), 0xF0 (lead of 4), 0xFF (never valid)
Bytes == {97, 195, 169, 226, 240, 255}

\* sessions spawn_pty may create
MaxSessions == 2
\* processes that may exist (session children and their descendants)
MaxPids == 3

\* the threads that may run the shutdown command (window close, menu quit)
ShutdownCallers == {"window-close", "menu-quit"}

\* session commands that may be called
MaxCalls == 2
MaxSoftCalls == 1

\* get_cached_user_shell / get_cached_user_path calls that may be made
MaxCacheCalls == 3

\* merge / rebase watcher threads that may be started
MaxTasks == 2
\* file-change watcher threads that may be started
MaxFileTasks == 1
\* config watcher threads that may be started
MaxConfigTasks == 2
\* filesystem notifications the environment delivers
MaxFsEvents == 2
\* times a merge / rebase marker is created
MaxMarkers == 2

\* the threads that call into the watcher registry
WatchCallers == {"ui", "bg"}
\* the worktree ids used as keys
Keys == {"wt1"}
\* the only slot of the config watcher
ConfigKey == "config"

(***************************************************************************)
(* Program constants.                                                      *)
(***************************************************************************)
\* pty.rs:408  consecutive_empty > 10 ends the read loop
MaxConsecutiveEmpty == 10
\* pty.rs:428  total_bytes > 50 fires pty-ready
ReadyThreshold == 50

\* watcher.rs:105, 409  recv_timeout(100 ms) of the watcher loops
RecvTimeoutMs == 100
\* watcher.rs:89  debounce of the file-change watcher
FileDebounceMs == 500
\* watcher.rs:395  debounce of the config watcher
ConfigDebounceMs == 300
\* watcher.rs:94  existence check interval of the file-change watcher
ExistenceCheckMs == 2000

VARIABLES
    \* ---- command and shell resolution of spawn_pty (pty.rs:124-299) ----
    request,            \* the arguments of one spawn_pty call and the files that exist
    built,              \* the CommandBuilder that call assembled
    CACHED,             \* CACHED_USER_SHELL and CACHED_USER_PATH
    cc,                 \* per thread: its get_cached_user_* call and last result
    discoveries,        \* per cache: how often its discovery has run
    cc_made             \* get_cached_user_* calls started so far

resolveVars == <<request, built, CACHED, cc, discoveries, cc_made>>

VARIABLES
    \* ---- output pump of one session (pty.rs:392-500) ----
    stream,             \* the bytes the child writes to the PTY, in order
    pos,                \* how many of them the reader has returned so far
    utf8_buf,           \* carry-over buffer of the reader thread
    consecutive_empty,  \* zero-byte reads in a row
    total_bytes,        \* bytes read so far
    ready_emitted,      \* the AtomicBool of the one-shot pty-ready event
    pump_pc,            \* "reading" | "waiting" | "emitting" | "exited"
    last_read,          \* outcome of the last reader.read call
    pty_events          \* events the pump emitted, in order

\* the state of spawn_pty outside the session tables: its reader thread and
\* its command and shell resolution
pumpVars == <<stream, pos, utf8_buf, consecutive_empty, total_bytes,
              ready_emitted, pump_pc, last_read, pty_events, resolveVars>>

VARIABLES
    \* ---- session tables and the shutdown cascade (pty.rs:112-122, 709-815) ----
    pty_sessions,          \* state.pty_sessions: session id -> child_pid
    PTY_WRITERS,           \* session ids with a writer handle
    PTY_MASTERS,           \* session ids with a master handle
    SHUTDOWN_IN_PROGRESS,  \* the AtomicBool guarding shutdown_all_ptys
    next_session,          \* session ids handed out so far (ids are fresh)
    alive,                 \* pids of the running processes
    parent,                \* pid -> parent pid of every process created, 0 = init
    signals,               \* pid -> the signals sent to it, in order, with sender
    shutdown_events,       \* shutdown-progress events emitted, in order
    sd                     \* per caller of shutdown_all_ptys: pc and locals

ptyVars == <<pty_sessions, PTY_WRITERS, PTY_MASTERS, SHUTDOWN_IN_PROGRESS,
             next_session, alive, parent, signals, shutdown_events, sd>>

VARIABLES
    \* ---- watcher registries and tasks (watcher.rs) ----
    registry,     \* kind -> (key -> task holding the receiver of the stored Sender)
    tasks,        \* the watcher threads spawned so far, in order
    wc,           \* per calling thread: the register call in progress, last result
    root_exists,  \* key -> the worktree directory exists
    marker,       \* kind -> key -> MERGE_HEAD (rebase-merge / rebase-apply) exists
    fs_sent,      \* filesystem notifications delivered so far
    markers_made  \* markers created so far

watchVars == <<registry, tasks, wc, root_exists, marker, fs_sent, markers_made>>

VARIABLES
    \* ---- the commands on one session, and what spawn_pty leaves behind ----
    calls,          \* per command thread: the call in progress and its locals
    calls_made,     \* session commands started so far
    force_done,     \* session ids for which a force_kill_pty has returned
    tracked_pids,   \* the crash-recovery pid list of cleanup::add_pid
    reader_threads, \* session id -> its reader thread: pc "running" | "exited"
    io,             \* the writes and resizes performed on a handle
    pgid            \* pid -> process group of every process created

sessVars == <<calls, calls_made, force_done, tracked_pids, reader_threads, io, pgid>>

vars == <<pumpVars, ptyVars, watchVars, sessVars>>

(***************************************************************************)
(* UTF-8 validation as std::str::from_utf8 performs it.                    *)
(***************************************************************************)
IsCont(b) == b >= 128 /\ b <= 191

\* Utf8CharWidth(b): the length of the sequence a first byte announces, 0 if
\* the byte can never start a sequence
Utf8CharWidth(b) ==
    IF b <= 127 THEN 1
    ELSE IF b >= 194 /\ b <= 223 THEN 2
    ELSE IF b >= 224 /\ b <= 239 THEN 3
    ELSE IF b >= 240 /\ b <= 244 THEN 4
    ELSE 0

\* the range the second byte of a sequence must lie in, by its first byte
SecondByteOk(first, b) ==
    CASE first = 224 -> b >= 160 /\ b <= 191
      [] first = 237 -> b >= 128 /\ b <= 159
      [] first = 240 -> b >= 144 /\ b <= 191
      [] first = 244 -> b >= 128 /\ b <= 143
      [] OTHER -> IsCont(b)

\* a complete valid sequence starts at index i of s
ValidSeqAt(s, i) ==
    LET w == Utf8CharWidth(s[i]) IN
    /\ w > 0
    /\ i + w - 1 <= Len(s)
    /\ w >= 2 => SecondByteOk(s[i], s[i + 1])
    /\ \A k \in 2..(w - 1) : IsCont(s[i + k])

\* Utf8Error::valid_up_to of from_utf8(s), Len(s) when s is valid: the number
\* of bytes scanned from index i on before the first invalid or incomplete
\* sequence
RECURSIVE ValidFrom(_, _)
ValidFrom(s, i) ==
    IF i > Len(s) THEN Len(s)
    ELSE IF ValidSeqAt(s, i) THEN ValidFrom(s, i + Utf8CharWidth(s[i]))
    ELSE i - 1

ValidUpTo(s) == ValidFrom(s, 1)

IsValidUtf8(s) == ValidUpTo(s) = Len(s)

\* the bytes of s from index i that are a proper prefix of some sequence (at
\* least one byte): what a lossy decoder replaces by one U+FFFD
RECURSIVE BadRun(_, _, _)
BadRun(s, i, k) ==
    LET w == Utf8CharWidth(s[i]) IN
    IF /\ k < w - 1
       /\ i + k <= Len(s)
       /\ (IF k = 1 THEN SecondByteOk(s[i], s[i + 1]) ELSE IsCont(s[i + k]))
    THEN BadRun(s, i, k + 1)
    ELSE k

\* U+FFFD in UTF-8
Replacement == <<239, 191, 189>>

\* String::from_utf8_lossy: the decoding of any byte stream, as UTF-8 bytes
RECURSIVE LossyFrom(_, _)
LossyFrom(s, i) ==
    IF i > Len(s) THEN <<>>
    ELSE IF ValidSeqAt(s, i)
         THEN SubSeq(s, i, i + Utf8CharWidth(s[i]) - 1)
              \o LossyFrom(s, i + Utf8CharWidth(s[i]))
         ELSE Replacement \o LossyFrom(s, i + BadRun(s, i, 1))

Utf8Decode(s) == LossyFrom(s, 1)

(***************************************************************************)
(* Command resolution of spawn_pty.  A string is the sequence of its       *)
(* whitespace-separated words; commands carry no surrounding quotes.       *)
(***************************************************************************)
\* Option::None of shell_override
NoShell == <<>>

\* no spawn_pty call is looked at
NoRequest == [command |-> <<>>, shell_override |-> NoShell, user_shell |-> <<>>,
              files |-> {}]

NotBuilt == [program |-> <<"none">>, args |-> <<>>]

\* the commands a spawn_pty call is given
Commands ==
    {<<>>, <<"shell">>, <<"ls">>, <<"ls", "-la">>, <<"/opt/tool">>,
     <<"/opt/tool", "-la">>, <<"bash">>, <<"bash", "-la">>}

\* the paths that may be existing files
Paths == {<<"ls">>, <<"/opt/tool">>, <<"/opt/tool", "-la">>}

Requests ==
    [command : Commands, shell_override : {NoShell, <<"/bin/zsh">>},
     user_shell : {<<"/bin/bash">>, <<"/bin/sh">>}, files : SUBSET Paths]

\* Path::new(path).is_file()
is_file(path, files) == path \in files

\* every word as a string of its own
Words(s) == [i \in 1..Len(s) |-> <<s[i]>>]

\* (executable, args): the whole command when it is empty or names a file,
\* else its first word and the words after it
Parsed(command, files) ==
    IF command = <<>> \/ is_file(command, files)
    THEN [executable |-> command, args |-> <<>>]
    ELSE [executable |-> <<Head(command)>>, args |-> Words(Tail(command))]

\* executable is one of fish, bash, zsh, sh, or a path that ends in one
is_shell_command(executable) == executable \in {<<"bash">>, <<"/bin/zsh">>, <<"/bin/sh">>}

\* shell_override, else the cached user shell
ResolvedShell(req) ==
    IF req.shell_override # NoShell THEN req.shell_override ELSE req.user_shell

\* the CommandBuilder spawn_pty assembles (not windows)
CommandBuilder(req) ==
    LET shell == ResolvedShell(req)
        exe == Parsed(req.command, req.files).executable
        args == Parsed(req.command, req.files).args IN
    IF req.command = <<"shell">>
    THEN [program |-> shell, args |-> << <<"-l">> >>]
    ELSE IF req.shell_override # NoShell
    THEN [program |-> shell, args |-> << <<"-c">>, req.command >>]
    ELSE IF is_shell_command(exe)
    THEN [program |-> <<"/usr/bin/env">>, args |-> <<exe>> \o args]
    ELSE [program |-> exe, args |-> args]

\* spawn_pty assembles the command of its call
BuildCommand ==
    /\ request # NoRequest
    /\ built = NotBuilt
    /\ built' = CommandBuilder(request)
    /\ UNCHANGED <<request, CACHED, cc, discoveries, cc_made>>
    /\ UNCHANGED <<stream, pos, utf8_buf, consecutive_empty, total_bytes,
                   ready_emitted, pump_pc, last_read, pty_events>>
    /\ UNCHANGED <<ptyVars, watchVars, sessVars>>

(***************************************************************************)
(* get_cached_user_shell and get_cached_user_path.                         *)
(***************************************************************************)
Caches == {"shell", "path"}

\* the threads that call spawn_pty or get_default_shell_command
CacheCallers == {"t1", "t2"}

\* Option::None of a cache
NotCached == <<>>

\* what a discovery may find: $SHELL, resp. the PATH the login shell prints
\* or the fallback PATH; the environment may change between two discoveries
Discoverable(cache) ==
    IF cache = "shell" THEN {<<"/bin/bash">>, <<"/bin/zsh">>}
    ELSE {<<"/usr/bin">>, <<"/usr/bin:/opt/bin">>}

CcIdle == [pc |-> "idle", cache |-> "none", ret |-> NotCached]

\* mutant of CacheHolders: the guard is dropped before the discovery
CacheHolders_Released(cache) == {}

\* the threads that hold the mutex of a cache from one step to the next:
\* the guard `cache` lives until the function returns
CacheHolders(cache) ==
    {t \in CacheCallers : cc[t].pc = "discover" /\ cc[t].cache = cache}

\* lock the cache; return the memoized value if there is one, else go on to
\* the discovery with the lock held
GetCached(t, cache) ==
    /\ cc[t].pc = "idle"
    /\ cc_made < MaxCacheCalls
    /\ CacheHolders(cache) = {}
    /\ cc_made' = cc_made + 1
    /\ cc' = [cc EXCEPT ![t] =
                IF CACHED[cache] # NotCached
                THEN [pc |-> "idle", cache |-> cache, ret |-> CACHED[cache]]
                ELSE [pc |-> "discover", cache |-> cache, ret |-> NotCached]]
    /\ UNCHANGED <<request, built, CACHED, discoveries>>
    /\ UNCHANGED <<stream, pos, utf8_buf, consecutive_empty, total_bytes,
                   ready_emitted, pump_pc, last_read, pty_events>>
    /\ UNCHANGED <<ptyVars, watchVars, sessVars>>

\* the discovery ends: *cache = Some(value), return value
StoreDiscovered(t) ==
    /\ cc[t].pc = "discover"
    /\ \E value \in Discoverable(cc[t].cache) :
        /\ CACHED' = [CACHED EXCEPT ![cc[t].cache] = value]
        /\ cc' = [cc EXCEPT ![t].pc = "idle", ![t].ret = value]
    /\ discoveries' = [discoveries EXCEPT ![cc[t].cache] = @ + 1]
    /\ UNCHANGED <<request, built, cc_made>>
    /\ UNCHANGED <<stream, pos, utf8_buf, consecutive_empty, total_bytes,
                   ready_emitted, pump_pc, last_read, pty_events>>
    /\ UNCHANGED <<ptyVars, watchVars, sessVars>>

InitResolveOn(requests) ==
    /\ request \in requests
    /\ built = NotBuilt
    /\ CACHED = [c \in Caches |-> NotCached]
    /\ cc = [t \in CacheCallers |-> CcIdle]
    /\ discoveries = [c \in Caches |-> 0]
    /\ cc_made = 0

NextCommand == BuildCommand

NextCache ==
    \/ \E t \in CacheCallers, cache \in Caches : GetCached(t, cache)
    \/ \E t \in CacheCallers : StoreDiscovered(t)

(***************************************************************************)
(* The output pump (reader thread of spawn_pty).                           *)
(***************************************************************************)
Ev(name, data) == [name |-> name, data |-> data]

\* cleanup::add_pid / remove_pid: the pid list kept for crash recovery
add_pid(list, pid) == list \cup {pid}
remove_pid(list, pid) == list \ {pid}

\* mutant of valid_up_to: the whole buffer is emitted without validation
valid_up_to_WholeBuffer(buf) == Len(buf)

\* the last valid UTF-8 boundary of the buffer
valid_up_to(buf) == IF IsValidUtf8(buf) THEN Len(buf) ELSE ValidUpTo(buf)

\* the chunk event of one read: the longest valid prefix of the buffer,
\* nothing when that prefix is empty
ChunkEvents(buf) ==
    IF valid_up_to(buf) > 0
    THEN <<Ev("pty-output", SubSeq(buf, 1, valid_up_to(buf)))>>
    ELSE <<>>

\* mutant of Leftover: the incomplete bytes are thrown away
Leftover_Dropped(buf) == <<>>

\* the bytes kept for the next read
Leftover(buf) == SubSeq(buf, valid_up_to(buf) + 1, Len(buf))

\* mutant of ReadyEvents: the one-shot flag is not consulted
ReadyEvents_NoLatch(total) ==
    IF total > ReadyThreshold THEN <<Ev("pty-ready", <<>>)>> ELSE <<>>

\* the pty-ready event of one read
ReadyEvents(total) ==
    IF ~ready_emitted /\ total > ReadyThreshold
    THEN <<Ev("pty-ready", <<>>)>>
    ELSE <<>>

\* the sizes reader.read may return into buf: at most MaxRead bytes, or, as
\* the first read of a long stream, all but at most MaxStream bytes of it
ReadSizes ==
    {n \in 1..(Len(stream) - pos) :
        \/ n <= MaxRead /\ Len(stream) - pos <= MaxStream
        \/ pos = 0 /\ Len(stream) - n <= MaxStream /\ Len(stream) > MaxStream}

\* reader.read returns Ok(n), n > 0
ReadData ==
    /\ pump_pc = "reading"
    /\ \E n \in ReadSizes :
        /\ pos + n <= Len(stream)
        /\ LET buf == utf8_buf \o SubSeq(stream, pos + 1, pos + n) IN
            /\ pos' = pos + n
            /\ consecutive_empty' = 0
            /\ total_bytes' = total_bytes + n
            /\ ready_emitted' = (ready_emitted \/ total_bytes + n > ReadyThreshold)
            /\ pty_events' = pty_events \o ReadyEvents(total_bytes + n)
                                        \o ChunkEvents(buf)
            /\ utf8_buf' = Leftover(buf)
    /\ last_read' = "data"
    /\ UNCHANGED <<stream, pump_pc>>

\* reader.read returns Ok(0): end of file, or nothing to read yet
ReadZero ==
    /\ pump_pc = "reading"
    /\ consecutive_empty' = consecutive_empty + 1
    /\ pump_pc' = IF consecutive_empty + 1 > MaxConsecutiveEmpty
                  THEN "waiting" ELSE "reading"
    /\ last_read' = "zero"
    /\ UNCHANGED <<stream, pos, utf8_buf, total_bytes, ready_emitted, pty_events>>

\* reader.read returns Err(WouldBlock): sleep and read again; a would-block
\* that follows a would-block is told apart, so that every retry is a step
ReadWouldBlock ==
    /\ pump_pc = "reading"
    /\ last_read' = IF last_read = "wouldblock" THEN "wouldblock again"
                    ELSE "wouldblock"
    /\ UNCHANGED <<stream, pos, utf8_buf, consecutive_empty, total_bytes,
                   ready_emitted, pump_pc, pty_events>>

\* reader.read returns any other error: the loop ends
ReadError ==
    /\ pump_pc = "reading"
    /\ pump_pc' = "waiting"
    /\ last_read' = "error"
    /\ UNCHANGED <<stream, pos, utf8_buf, consecutive_empty, total_bytes,
                   ready_emitted, pty_events>>

\* the pid of the child of the pumped session
PumpedPid == 1

\* child.wait() returns; remove_pid(child_pid_for_cleanup)
PumpWait ==
    /\ pump_pc = "waiting"
    /\ pump_pc' = "emitting"
    /\ tracked_pids' = remove_pid(tracked_pids, PumpedPid)
    /\ UNCHANGED <<stream, pos, utf8_buf, consecutive_empty, total_bytes,
                   ready_emitted, last_read, pty_events>>

\* emit pty-exit; the thread ends
PumpExit ==
    /\ pump_pc = "emitting"
    /\ pump_pc' = "exited"
    /\ pty_events' = Append(pty_events, Ev("pty-exit", <<>>))
    /\ UNCHANGED <<stream, pos, utf8_buf, consecutive_empty, total_bytes,
                   ready_emitted, last_read>>

RECURSIVE SeqsUpTo(_)
SeqsUpTo(n) ==
    IF n = 0 THEN {<<>>}
    ELSE LET shorter == SeqsUpTo(n - 1) IN
         shorter \cup {Append(s, b) : s \in {t \in shorter : Len(t) = n - 1}, b \in Bytes}

InitPumpOn(streams) ==
    /\ InitResolveOn({NoRequest})
    /\ stream \in streams
    /\ pos = 0
    /\ utf8_buf = <<>>
    /\ consecutive_empty = 0
    /\ total_bytes = 0
    /\ ready_emitted = FALSE
    /\ pump_pc = "reading"
    /\ last_read = "none"
    /\ pty_events = <<>>

InitPump == InitPumpOn(SeqsUpTo(MaxStream))

\* no session is being pumped
InitNoPump == InitPumpOn({<<>>})

\* the output of a session that writes up to a few bytes more than the ready
\* threshold
ReadyStreams == {[i \in 1..n |-> 97] : n \in 0..(ReadyThreshold + MaxStream)}

NextPump ==
    \/ ReadData /\ UNCHANGED <<resolveVars, ptyVars, watchVars, sessVars>>
    \/ ReadZero /\ UNCHANGED <<resolveVars, ptyVars, watchVars, sessVars>>
    \/ ReadWouldBlock /\ UNCHANGED <<resolveVars, ptyVars, watchVars, sessVars>>
    \/ ReadError /\ UNCHANGED <<resolveVars, ptyVars, watchVars, sessVars>>
    \/ PumpWait /\ UNCHANGED <<resolveVars, ptyVars, watchVars, calls, calls_made, force_done,
                               reader_threads, io, pgid>>
    \/ PumpExit /\ UNCHANGED <<resolveVars, ptyVars, watchVars, sessVars>>

(***************************************************************************)
(* Processes, signals and process-tree discovery.                          *)
(***************************************************************************)
Pids == 1..MaxPids
SessionIds == 1..MaxSessions

\* the elements of a set of numbers in ascending order
RECURSIVE SortedSeq(_)
SortedSeq(S) ==
    IF S = {} THEN <<>>
    ELSE LET m == CHOOSE x \in S : \A y \in S : x <= y
         IN <<m>> \o SortedSeq(S \ {m})

\* pgrep -P pid: the running processes whose parent is pid
Pgrep(pid) == SortedSeq({c \in alive : parent[c] = pid})

\* get_child_pids: every child preceded by its own descendants
RECURSIVE get_child_pids(_)
RECURSIVE ChildrenFrom(_)
\* mutant of ChildrenFrom: a process is listed before its descendants
ChildrenFrom_PreOrder(cs) ==
    IF cs = <<>> THEN <<>>
    ELSE <<Head(cs)>> \o get_child_pids(Head(cs)) \o ChildrenFrom(Tail(cs))

ChildrenFrom(cs) ==
    IF cs = <<>> THEN <<>>
    ELSE get_child_pids(Head(cs)) \o <<Head(cs)>> \o ChildrenFrom(Tail(cs))
get_child_pids(pid) == ChildrenFrom(Pgrep(pid))

\* is_process_alive: kill(pid, 0) == 0
is_process_alive(pid) == pid \in alive

\* the signal log after send_signal(pid, sig) by a sender: kill fails, and
\* nothing is delivered, when the process does not exist
Sent(log, pid, sig, by) ==
    IF pid \in alive /\ pid \in DOMAIN log
    THEN [log EXCEPT ![pid] = Append(@, [sig |-> sig, by |-> by])]
    ELSE log

\* mutant of SentAll: the loop ends at the first process that has gone
RECURSIVE SentAll_UntilGone(_, _, _, _)
SentAll_UntilGone(log, pids, sig, by) ==
    IF pids = <<>> \/ ~is_process_alive(Head(pids)) THEN log
    ELSE SentAll_UntilGone(Sent(log, Head(pids), sig, by), Tail(pids), sig, by)

\* send a signal to every running process of a list, in order
RECURSIVE SentAll(_, _, _, _)
SentAll(log, pids, sig, by) ==
    IF pids = <<>> THEN log
    ELSE SentAll(IF is_process_alive(Head(pids))
                 THEN Sent(log, Head(pids), sig, by) ELSE log,
                 Tail(pids), sig, by)

\* a process forks a child
ProcFork ==
    /\ Cardinality(DOMAIN parent) < MaxPids
    /\ \E p \in alive :
        LET c == Cardinality(DOMAIN parent) + 1 IN
        /\ parent' = [x \in DOMAIN parent \cup {c} |->
                        IF x = c THEN p ELSE parent[x]]
        /\ alive' = alive \cup {c}
        /\ signals' = [x \in DOMAIN signals \cup {c} |->
                        IF x = c THEN <<>> ELSE signals[x]]
        /\ pgid' = [x \in DOMAIN pgid \cup {c} |->
                        IF x = c THEN pgid[p] ELSE pgid[x]]
    /\ UNCHANGED <<pty_sessions, PTY_WRITERS, PTY_MASTERS, SHUTDOWN_IN_PROGRESS,
                   next_session, shutdown_events, sd>>
    /\ UNCHANGED <<calls, calls_made, force_done, tracked_pids, reader_threads, io>>
    /\ UNCHANGED <<pumpVars, watchVars>>

\* a process exits (by itself or on a signal it received); its children are
\* inherited by init
ProcExit ==
    /\ \E p \in alive :
        /\ alive' = alive \ {p}
        /\ parent' = [x \in DOMAIN parent |-> IF parent[x] = p THEN 0 ELSE parent[x]]
    /\ UNCHANGED <<pty_sessions, PTY_WRITERS, PTY_MASTERS, SHUTDOWN_IN_PROGRESS,
                   next_session, signals, shutdown_events, sd>>
    /\ UNCHANGED <<pumpVars, watchVars, sessVars>>

(***************************************************************************)
(* spawn_pty: the registration of a new session.                           *)
(***************************************************************************)

\* mutant of TableHolders: the table guard lives until the call returns
TableHolders_UntilReturn(op) ==
    {k \in DOMAIN calls : calls[k].op = op /\ calls[k].pc \in {"io", "held"}}

\* the calls of `op` that keep the lock of its handle table from one step to
\* the next: none, the guard is dropped right after the lookup
TableHolders(op) == {}

\* PTY_WRITERS.lock() and PTY_MASTERS.lock() can be taken
TablesFree == TableHolders("write_to_pty") = {} /\ TableHolders("resize_pty") = {}

\* the call succeeds: the child runs, the three tables hold the new id and
\* the reader thread is started
SpawnPty ==
    /\ next_session < MaxSessions
    /\ TablesFree
    /\ Cardinality(DOMAIN parent) < MaxPids
    /\ LET id == next_session + 1
           pid == Cardinality(DOMAIN parent) + 1 IN
        /\ next_session' = id
        /\ parent' = [x \in DOMAIN parent \cup {pid} |->
                        IF x = pid THEN 0 ELSE parent[x]]
        /\ alive' = alive \cup {pid}
        /\ signals' = [x \in DOMAIN signals \cup {pid} |->
                        IF x = pid THEN <<>> ELSE signals[x]]
        /\ PTY_MASTERS' = PTY_MASTERS \cup {id}
        /\ PTY_WRITERS' = PTY_WRITERS \cup {id}
        /\ pty_sessions' = [x \in DOMAIN pty_sessions \cup {id} |->
                              IF x = id THEN pid ELSE pty_sessions[x]]
        /\ pgid' = [x \in DOMAIN pgid \cup {pid} |->
                        IF x = pid THEN pid ELSE pgid[x]]
        /\ tracked_pids' = add_pid(tracked_pids, pid)
        /\ reader_threads' = [x \in DOMAIN reader_threads \cup {id} |->
                                IF x = id THEN [pc |-> "running", child_pid |-> pid]
                                ELSE reader_threads[x]]
    /\ UNCHANGED <<SHUTDOWN_IN_PROGRESS, shutdown_events, sd>>
    /\ UNCHANGED <<calls, calls_made, force_done, io>>
    /\ UNCHANGED <<pumpVars, watchVars>>

\* the call succeeds but child.process_id() is None: the session records
\* child_pid 0, the pid is not tracked, and the child is a process the
\* session tables cannot name
SpawnPtyNoPid ==
    /\ next_session < MaxSessions
    /\ TablesFree
    /\ LET id == next_session + 1 IN
        /\ next_session' = id
        /\ PTY_MASTERS' = PTY_MASTERS \cup {id}
        /\ PTY_WRITERS' = PTY_WRITERS \cup {id}
        /\ pty_sessions' = [x \in DOMAIN pty_sessions \cup {id} |->
                              IF x = id THEN 0 ELSE pty_sessions[x]]
        /\ reader_threads' = [x \in DOMAIN reader_threads \cup {id} |->
                                IF x = id THEN [pc |-> "running", child_pid |-> 0]
                                ELSE reader_threads[x]]
    /\ UNCHANGED <<SHUTDOWN_IN_PROGRESS, alive, parent, signals, shutdown_events, sd>>
    /\ UNCHANGED <<calls, calls_made, force_done, tracked_pids, io, pgid>>
    /\ UNCHANGED <<pumpVars, watchVars>>

(***************************************************************************)
(* shutdown_all_ptys.                                                      *)
(***************************************************************************)
Progress(phase, by) == [phase |-> phase, by |-> by]

\* the value SHUTDOWN_IN_PROGRESS.swap(true) returns
ShutdownAlreadyRunning_Ignored == FALSE

ShutdownAlreadyRunning == SHUTDOWN_IN_PROGRESS

\* the pids one session contributes to all_pids
PidsOfSession(pid) ==
    IF pid = 0 \/ ~is_process_alive(pid) THEN <<>>
    ELSE SelectSeq(get_child_pids(pid), is_process_alive) \o <<pid>>

RECURSIVE PidsOfSessions(_, _)
PidsOfSessions(snapshot, ids) ==
    IF ids = <<>> THEN <<>>
    ELSE PidsOfSession(snapshot[Head(ids)]) \o PidsOfSessions(snapshot, Tail(ids))

\* mutant of Dedup: the retain is dropped
Dedup_Keep(pids, seen) == pids

\* all_pids.retain(seen.insert): the first occurrence of every pid
RECURSIVE Dedup(_, _)
Dedup(pids, seen) ==
    IF pids = <<>> THEN <<>>
    ELSE IF Head(pids) \in seen THEN Dedup(Tail(pids), seen)
    ELSE <<Head(pids)>> \o Dedup(Tail(pids), seen \cup {Head(pids)})

\* the orders a HashMap with these keys may be iterated in
Orders(S) == {o \in [1..Cardinality(S) -> S] : \A i, j \in DOMAIN o : i # j => o[i] # o[j]}

SdIdle == [pc |-> "idle", sessions |-> <<>>, all_pids |-> <<>>, ret |-> "none"]

\* SHUTDOWN_IN_PROGRESS.swap(true): the second caller returns at once
ShSwap(c) ==
    /\ sd[c].pc = "idle"
    /\ sd[c].ret = "none"
    /\ IF ShutdownAlreadyRunning
       THEN sd' = [sd EXCEPT ![c].ret = "noop"]
       ELSE sd' = [sd EXCEPT ![c].pc = "snapshot"]
    /\ SHUTDOWN_IN_PROGRESS' = TRUE
    /\ UNCHANGED <<pty_sessions, PTY_WRITERS, PTY_MASTERS, next_session, alive,
                   parent, signals, shutdown_events>>
    /\ UNCHANGED <<pumpVars, watchVars, sessVars>>

\* mutant of SnapshotEmpty: the early return is never taken
SnapshotEmpty_Never(snapshot) == FALSE

\* sessions.is_empty()
SnapshotEmpty(snapshot) == DOMAIN snapshot = {}

\* the snapshot of the session table; with no session, "complete" at once
ShSnapshot(c) ==
    /\ sd[c].pc = "snapshot"
    /\ IF SnapshotEmpty(pty_sessions)
       THEN /\ shutdown_events' = Append(shutdown_events, Progress("complete", c))
            /\ sd' = [sd EXCEPT ![c].pc = "idle", ![c].ret = "complete"]
       ELSE /\ shutdown_events' = Append(shutdown_events, Progress("starting", c))
            /\ sd' = [sd EXCEPT ![c].pc = "collect", ![c].sessions = pty_sessions]
    /\ UNCHANGED <<pty_sessions, PTY_WRITERS, PTY_MASTERS, SHUTDOWN_IN_PROGRESS,
                   next_session, alive, parent, signals>>
    /\ UNCHANGED <<pumpVars, watchVars, sessVars>>

\* build all_pids, de-duplicated, children before their session's root
ShCollect(c) ==
    /\ sd[c].pc = "collect"
    /\ \E order \in Orders(DOMAIN sd[c].sessions) :
         sd' = [sd EXCEPT ![c].pc = "hup",
                          ![c].all_pids = Dedup(PidsOfSessions(sd[c].sessions, order), {})]
    /\ shutdown_events' = Append(shutdown_events, Progress("signaling", c))
    /\ UNCHANGED <<pty_sessions, PTY_WRITERS, PTY_MASTERS, SHUTDOWN_IN_PROGRESS,
                   next_session, alive, parent, signals>>
    /\ UNCHANGED <<pumpVars, watchVars, sessVars>>

\* phase 1: SIGHUP to every process of all_pids still running, then sleep
ShHup(c) ==
    /\ sd[c].pc = "hup"
    /\ signals' = SentAll(signals, sd[c].all_pids, "SIGHUP", c)
    /\ sd' = [sd EXCEPT ![c].pc = "term"]
    /\ UNCHANGED <<pty_sessions, PTY_WRITERS, PTY_MASTERS, SHUTDOWN_IN_PROGRESS,
                   next_session, alive, parent, shutdown_events>>
    /\ UNCHANGED <<pumpVars, watchVars, sessVars>>

\* phase 2: SIGTERM to the processes still running, then sleep
ShTerm(c) ==
    /\ sd[c].pc = "term"
    /\ signals' = SentAll(signals, SelectSeq(sd[c].all_pids, is_process_alive), "SIGTERM", c)
    /\ sd' = [sd EXCEPT ![c].pc = "kill"]
    /\ UNCHANGED <<pty_sessions, PTY_WRITERS, PTY_MASTERS, SHUTDOWN_IN_PROGRESS,
                   next_session, alive, parent, shutdown_events>>
    /\ UNCHANGED <<pumpVars, watchVars, sessVars>>

\* phase 3: SIGKILL to the processes still running; SIGKILL cannot be caught
ShKill(c) ==
    /\ sd[c].pc = "kill"
    /\ LET remaining == SelectSeq(sd[c].all_pids, is_process_alive)
           killed == {remaining[i] : i \in DOMAIN remaining} IN
        /\ signals' = SentAll(signals, remaining, "SIGKILL", c)
        /\ alive' = alive \ killed
        /\ parent' = [x \in DOMAIN parent |->
                        IF parent[x] \in killed THEN 0 ELSE parent[x]]
        /\ shutdown_events' = IF remaining # <<>>
                              THEN Append(shutdown_events, Progress("signaling", c))
                              ELSE shutdown_events
    /\ sd' = [sd EXCEPT ![c].pc = "cleanup"]
    /\ UNCHANGED <<pty_sessions, PTY_WRITERS, PTY_MASTERS, SHUTDOWN_IN_PROGRESS,
                   next_session>>
    /\ UNCHANGED <<pumpVars, watchVars, sessVars>>

\* mutant of ShCleanup: the flag is cleared when the cascade is over
ShCleanup_Resets(c) ==
    /\ sd[c].pc = "cleanup"
    /\ LET ids == DOMAIN sd[c].sessions IN
        /\ pty_sessions' = [x \in DOMAIN pty_sessions \ ids |-> pty_sessions[x]]
        /\ PTY_WRITERS' = PTY_WRITERS \ ids
        /\ PTY_MASTERS' = PTY_MASTERS \ ids
    /\ shutdown_events' = Append(shutdown_events, Progress("complete", c))
    /\ sd' = [sd EXCEPT ![c].pc = "idle", ![c].ret = "complete"]
    /\ SHUTDOWN_IN_PROGRESS' = FALSE
    /\ UNCHANGED <<next_session, alive, parent, signals>>
    /\ UNCHANGED <<pumpVars, watchVars, sessVars>>

\* remove the sessions of the snapshot from the three tables, emit "complete"
ShCleanup(c) ==
    /\ sd[c].pc = "cleanup"
    /\ LET ids == DOMAIN sd[c].sessions IN
        /\ pty_sessions' = [x \in DOMAIN pty_sessions \ ids |-> pty_sessions[x]]
        /\ PTY_WRITERS' = PTY_WRITERS \ ids
        /\ PTY_MASTERS' = PTY_MASTERS \ ids
    /\ shutdown_events' = Append(shutdown_events, Progress("complete", c))
    /\ sd' = [sd EXCEPT ![c].pc = "idle", ![c].ret = "complete"]
    /\ UNCHANGED <<SHUTDOWN_IN_PROGRESS, next_session, alive, parent, signals>>
    /\ UNCHANGED <<pumpVars, watchVars, sessVars>>

shutdown_all_ptys(c) ==
    \/ ShSwap(c) \/ ShSnapshot(c) \/ ShCollect(c) \/ ShHup(c)
    \/ ShTerm(c) \/ ShKill(c) \/ ShCleanup(c)

\* the thread of the shutdown command after shutdown_all_ptys has returned:
\* stop_all_watchers, the 300 ms delay, then app.exit(0)
AppExit(c) ==
    /\ sd[c].pc = "idle"
    /\ sd[c].ret # "none"
    /\ sd' = [sd EXCEPT ![c].pc = "exited"]
    /\ UNCHANGED <<pty_sessions, PTY_WRITERS, PTY_MASTERS, SHUTDOWN_IN_PROGRESS,
                   next_session, alive, parent, signals, shutdown_events>>
    /\ UNCHANGED <<pumpVars, watchVars, sessVars>>

InitPty ==
    /\ pty_sessions = <<>>
    /\ PTY_WRITERS = {}
    /\ PTY_MASTERS = {}
    /\ SHUTDOWN_IN_PROGRESS = FALSE
    /\ next_session = 0
    /\ alive = {}
    /\ parent = <<>>
    /\ signals = <<>>
    /\ shutdown_events = <<>>
    /\ sd = [c \in ShutdownCallers |-> SdIdle]

\* the threads that run the session commands
CmdCallers == {"cmd1", "cmd2"}

CallIdle == [op |-> "none", id |-> 0, pc |-> "idle", pid |-> 0, todo |-> <<>>,
             ret |-> <<"none">>]

InitSess(tracked) ==
    /\ calls = [c \in CmdCallers |-> CallIdle]
    /\ calls_made = 0
    /\ force_done = {}
    /\ tracked_pids = tracked
    /\ reader_threads = <<>>
    /\ io = {}
    /\ pgid = <<>>

(***************************************************************************)
(* spawn_pty failing, and the end of a session's reader thread.            *)
(***************************************************************************)
\* the steps of spawn_pty that return early through `?`
FallibleSteps == {"openpty", "spawn_command", "take_writer", "try_clone_reader"}

\* spawn_pty returns an error at `step`: before the child exists nothing has
\* changed; after it, the child runs, its pid is tracked and the master is
\* stored under the new id
SpawnPtyFails(step) ==
    /\ IF step \in {"openpty", "spawn_command"}
       THEN UNCHANGED <<next_session, parent, alive, signals, PTY_MASTERS, pgid,
                        tracked_pids>>
       ELSE /\ next_session < MaxSessions
            /\ Cardinality(DOMAIN parent) < MaxPids
            /\ LET id == next_session + 1
                   pid == Cardinality(DOMAIN parent) + 1 IN
                /\ next_session' = id
                /\ parent' = [x \in DOMAIN parent \cup {pid} |->
                                IF x = pid THEN 0 ELSE parent[x]]
                /\ alive' = alive \cup {pid}
                /\ signals' = [x \in DOMAIN signals \cup {pid} |->
                                IF x = pid THEN <<>> ELSE signals[x]]
                /\ pgid' = [x \in DOMAIN pgid \cup {pid} |->
                                IF x = pid THEN pid ELSE pgid[x]]
                /\ tracked_pids' = add_pid(tracked_pids, pid)
                /\ PTY_MASTERS' = PTY_MASTERS \cup {id}
    /\ UNCHANGED <<pty_sessions, PTY_WRITERS, SHUTDOWN_IN_PROGRESS, shutdown_events, sd>>
    /\ UNCHANGED <<calls, calls_made, force_done, reader_threads, io>>
    /\ UNCHANGED <<pumpVars, watchVars>>

\* the reader thread of a session leaves its loop, child.wait() returns,
\* the pid is untracked and pty-exit is emitted
ReaderExit(id) ==
    /\ id \in DOMAIN reader_threads
    /\ reader_threads[id].pc = "running"
    /\ ~is_process_alive(reader_threads[id].child_pid)
    /\ tracked_pids' = remove_pid(tracked_pids, reader_threads[id].child_pid)
    /\ reader_threads' = [reader_threads EXCEPT ![id].pc = "exited"]
    /\ UNCHANGED <<calls, calls_made, force_done, io, pgid>>
    /\ UNCHANGED <<pumpVars, ptyVars, watchVars>>

(***************************************************************************)
(* The commands on one session: interrupt_pty, kill_pty, force_kill_pty,   *)
(* write_to_pty, resize_pty.                                               *)
(***************************************************************************)
\* an id no spawn_pty has returned
NoSuchId == 0

\* the ids a command may be called with
CallIds == {NoSuchId} \cup (1..next_session)

SignalOf(op) ==
    IF op = "interrupt_pty" THEN "SIGINT"
    ELSE IF op = "kill_pty" THEN "SIGTERM" ELSE "SIGKILL"

\* the call has returned `ret`; its locals are gone
Returned(call, ret) == [CallIdle EXCEPT !.op = call.op, !.id = call.id, !.ret = ret]

\* the command thread an incoming command runs on: the first free one
FreeCaller == IF calls["cmd1"].pc = "idle" THEN "cmd1" ELSE "cmd2"

\* state.pty_sessions.read().get(pty_id).map(|s| s.child_pid)
ReadPid(c, op, id) ==
    /\ c = FreeCaller
    /\ calls[c].pc = "idle"
    /\ calls_made < MaxCalls
    /\ calls_made' = calls_made + 1
    /\ LET call == [op |-> op, id |-> id, pc |-> "idle", pid |-> 0, todo |-> <<>>,
                    ret |-> <<"none">>] IN
       IF id \in DOMAIN pty_sessions
       THEN calls' = [calls EXCEPT ![c] =
                [call EXCEPT !.pid = pty_sessions[id],
                             !.pc = IF op = "interrupt_pty" THEN "group" ELSE "discover"]]
       ELSE calls' = [calls EXCEPT ![c] =
                IF op = "force_kill_pty" THEN [call EXCEPT !.pc = "cleanup"]
                ELSE Returned(call, <<"Ok">>)]
    /\ UNCHANGED <<force_done, tracked_pids, reader_threads, io, pgid>>
    /\ UNCHANGED <<pumpVars, ptyVars, watchVars>>

\* let children = get_child_pids(pid); the root is signalled after them
Discover(c) ==
    /\ calls[c].pc = "discover"
    /\ calls' = [calls EXCEPT ![c].todo = get_child_pids(calls[c].pid) \o <<calls[c].pid>>,
                              ![c].pc = "send"]
    /\ UNCHANGED <<calls_made, force_done, tracked_pids, reader_threads, io, pgid>>
    /\ UNCHANGED <<pumpVars, ptyVars, watchVars>>

\* mutant of AfterSignals: kill_pty cleans up like force_kill_pty
AfterSignals_Cleanup(call) == [call EXCEPT !.pc = "cleanup", !.todo = <<>>]

\* where a call goes on when its last signal is sent
AfterSignals(call) ==
    IF call.op = "force_kill_pty" THEN [call EXCEPT !.pc = "cleanup", !.todo = <<>>]
    ELSE Returned(call, <<"Ok">>)

\* the processes SIGKILL ends; the other signals may be caught or ignored
Killed(pids, sig) == IF sig = "SIGKILL" THEN pids \cap alive ELSE {}

\* send_signal(child_pid, sig) for the next pid of the list
SendNext(c) ==
    /\ calls[c].pc = "send"
    /\ LET call == calls[c]
           p == Head(call.todo)
           sig == SignalOf(call.op)
           dead == Killed({p}, sig) IN
        /\ signals' = Sent(signals, p, sig, c)
        /\ alive' = alive \ dead
        /\ parent' = [x \in DOMAIN parent |-> IF parent[x] \in dead THEN 0 ELSE parent[x]]
        /\ calls' = [calls EXCEPT ![c] =
                IF Tail(call.todo) = <<>> THEN AfterSignals(call)
                ELSE [call EXCEPT !.todo = Tail(@)]]
    /\ UNCHANGED <<pty_sessions, PTY_WRITERS, PTY_MASTERS, SHUTDOWN_IN_PROGRESS,
                   next_session, shutdown_events, sd>>
    /\ UNCHANGED <<calls_made, force_done, tracked_pids, reader_threads, io, pgid>>
    /\ UNCHANGED <<pumpVars, watchVars>>

\* mutant of RemoveSession: the master handle is left behind
RemoveSession_KeepsMaster(id) ==
    [sessions |-> [x \in DOMAIN pty_sessions \ {id} |-> pty_sessions[x]],
     writers |-> PTY_WRITERS \ {id},
     masters |-> PTY_MASTERS]

\* mutant of RemoveSession: the tables are cleared
RemoveSession_Clear(id) == [sessions |-> <<>>, writers |-> {}, masters |-> {}]

\* the tables after force_kill_pty removed the id
RemoveSession(id) ==
    [sessions |-> [x \in DOMAIN pty_sessions \ {id} |-> pty_sessions[x]],
     writers |-> PTY_WRITERS \ {id},
     masters |-> PTY_MASTERS \ {id}]

\* force_kill_pty: "Clean up state", then Ok
ForceCleanup(c) ==
    /\ calls[c].pc = "cleanup"
    /\ TablesFree
    /\ LET after == RemoveSession(calls[c].id) IN
        /\ pty_sessions' = after.sessions
        /\ PTY_WRITERS' = after.writers
        /\ PTY_MASTERS' = after.masters
    /\ force_done' = force_done \cup {calls[c].id}
    /\ calls' = [calls EXCEPT ![c] = Returned(calls[c], <<"Ok">>)]
    /\ UNCHANGED <<SHUTDOWN_IN_PROGRESS, next_session, alive, parent, signals,
                   shutdown_events, sd>>
    /\ UNCHANGED <<calls_made, tracked_pids, reader_threads, io, pgid>>
    /\ UNCHANGED <<pumpVars, watchVars>>

\* the running processes of process group g
ProcessGroup(g) == {p \in alive : pgid[p] = g}

RECURSIVE SentEach(_, _, _, _)
SentEach(log, pids, sig, by) ==
    IF pids = {} THEN log
    ELSE LET p == CHOOSE x \in pids : TRUE
         IN SentEach(Sent(log, p, sig, by), pids \ {p}, sig, by)

\* mutant of InterruptSend: the direct send is made whatever the group
\* signal returned
InterruptSend_Both(c) ==
    /\ calls[c].pc = "group"
    /\ signals' = Sent(SentEach(signals, ProcessGroup(calls[c].pid), "SIGINT", c),
                       calls[c].pid, "SIGINT", c)
    /\ calls' = [calls EXCEPT ![c] = Returned(calls[c], <<"Ok">>)]
    /\ UNCHANGED <<pty_sessions, PTY_WRITERS, PTY_MASTERS, SHUTDOWN_IN_PROGRESS,
                   next_session, alive, parent, shutdown_events, sd>>
    /\ UNCHANGED <<calls_made, force_done, tracked_pids, reader_threads, io, pgid>>
    /\ UNCHANGED <<pumpVars, watchVars>>

\* interrupt_pty: kill(-pid, SIGINT); if that fails, send_signal(pid, SIGINT)
InterruptSend(c) ==
    /\ calls[c].pc = "group"
    /\ LET pid == calls[c].pid
           group == ProcessGroup(pid) IN
        signals' = IF group # {} THEN SentEach(signals, group, "SIGINT", c)
                   ELSE Sent(signals, pid, "SIGINT", c)
    /\ calls' = [calls EXCEPT ![c] = Returned(calls[c], <<"Ok">>)]
    /\ UNCHANGED <<pty_sessions, PTY_WRITERS, PTY_MASTERS, SHUTDOWN_IN_PROGRESS,
                   next_session, alive, parent, shutdown_events, sd>>
    /\ UNCHANGED <<calls_made, force_done, tracked_pids, reader_threads, io, pgid>>
    /\ UNCHANGED <<pumpVars, watchVars>>

interrupt_pty(c) == (\E id \in CallIds : ReadPid(c, "interrupt_pty", id)) \/ InterruptSend(c)

kill_pty(c) == \E id \in CallIds : ReadPid(c, "kill_pty", id)

force_kill_pty(c) == (\E id \in CallIds : ReadPid(c, "force_kill_pty", id)) \/ ForceCleanup(c)

\* the table write_to_pty, resp. resize_pty looks the id up in
HandleTable(op) == IF op = "write_to_pty" THEN PTY_WRITERS ELSE PTY_MASTERS

\* mutant of HasHandle: the lookup result is not tested
HasHandle_Unchecked(op, id) == TRUE

\* writers.get(pty_id), resp. masters.get(pty_id), is Some
HasHandle(op, id) == id \in HandleTable(op)

\* the lookup under the table lock: SessionNotFound(id), or the handle
Lookup(c, op, id) ==
    /\ c = FreeCaller
    /\ calls[c].pc = "idle"
    /\ calls_made < MaxCalls
    /\ TableHolders(op) = {}
    /\ calls_made' = calls_made + 1
    /\ LET call == [op |-> op, id |-> id, pc |-> "idle", pid |-> 0, todo |-> <<>>,
                    ret |-> <<"none">>] IN
       calls' = [calls EXCEPT ![c] =
                IF HasHandle(op, id) THEN [call EXCEPT !.pc = "io"]
                ELSE Returned(call, <<"SessionNotFound", id>>)]
    /\ UNCHANGED <<force_done, tracked_pids, reader_threads, io, pgid>>
    /\ UNCHANGED <<pumpVars, ptyVars, watchVars>>

\* writer.lock(), resp. master.lock(): the mutex of the one handle, taken once
\* no other call holds it
HandleLock(c) ==
    /\ calls[c].pc = "io"
    /\ \A k \in CmdCallers :
         calls[k].pc = "held" => (calls[k].op # calls[c].op \/ calls[k].id # calls[c].id)
    /\ calls' = [calls EXCEPT ![c].pc = "held"]
    /\ UNCHANGED <<calls_made, force_done, tracked_pids, reader_threads, io, pgid>>
    /\ UNCHANGED <<pumpVars, ptyVars, watchVars>>

\* write(data), resp. resize(size), under the handle's mutex: Ok or Io error
\* after any time, then the mutex is released
HandleIo(c) ==
    /\ calls[c].pc = "held"
    /\ io' = io \cup {<<calls[c].op, calls[c].id>>}
    /\ \E ok \in BOOLEAN :
         calls' = [calls EXCEPT ![c] = Returned(calls[c], IF ok THEN <<"Ok">> ELSE <<"Io">>)]
    /\ UNCHANGED <<calls_made, force_done, tracked_pids, reader_threads, pgid>>
    /\ UNCHANGED <<pumpVars, ptyVars, watchVars>>

write_to_pty(c) == \E id \in CallIds : Lookup(c, "write_to_pty", id)

resize_pty(c) == \E id \in CallIds : Lookup(c, "resize_pty", id)

\* sessions, their process trees and the commands that signal them
NextSession ==
    \/ SpawnPty
    \/ ProcFork
    \/ ProcExit
    \/ \E id \in DOMAIN reader_threads : ReaderExit(id)
    \/ \E c \in CmdCallers : interrupt_pty(c)
    \/ \E c \in CmdCallers : kill_pty(c)
    \/ \E c \in CmdCallers : force_kill_pty(c)
    \/ \E c \in CmdCallers : Discover(c)
    \/ \E c \in CmdCallers : SendNext(c)

\* sessions, their tables and the commands that use the handles
NextHandles ==
    \/ SpawnPty
    \/ \E step \in FallibleSteps : SpawnPtyFails(step)
    \/ ProcExit
    \/ \E id \in DOMAIN reader_threads : ReaderExit(id)
    \/ \E c \in CmdCallers : kill_pty(c)
    \/ \E c \in CmdCallers : force_kill_pty(c)
    \/ \E c \in CmdCallers : Discover(c)
    \/ \E c \in CmdCallers : SendNext(c)
    \/ \E c \in CmdCallers : write_to_pty(c)
    \/ \E c \in CmdCallers : resize_pty(c)
    \/ \E c \in CmdCallers : HandleLock(c)
    \/ \E c \in CmdCallers : HandleIo(c)

\* the operations that send signals to lists of pids
NextSoft ==
    \/ SpawnPty
    \/ ProcExit
    \/ \E c \in CmdCallers : calls_made < MaxSoftCalls /\ kill_pty(c)
    \/ \E c \in CmdCallers : calls_made < MaxSoftCalls /\ force_kill_pty(c)
    \/ \E c \in CmdCallers : Discover(c)
    \/ \E c \in CmdCallers : SendNext(c)
    \/ \E c \in ShutdownCallers : shutdown_all_ptys(c)

\* sessions with and without a recorded child pid, and every operation that
\* signals the processes of a session
NextNoPid ==
    \/ SpawnPty
    \/ SpawnPtyNoPid
    \/ \E c \in CmdCallers : calls_made < MaxSoftCalls /\ interrupt_pty(c)
    \/ \E c \in CmdCallers : calls_made < MaxSoftCalls /\ kill_pty(c)
    \/ \E c \in CmdCallers : calls_made < MaxSoftCalls /\ force_kill_pty(c)
    \/ \E c \in CmdCallers : Discover(c)
    \/ \E c \in CmdCallers : SendNext(c)
    \/ \E c \in ShutdownCallers : shutdown_all_ptys(c)

NextShutdown ==
    \/ SpawnPty
    \/ ProcFork
    \/ ProcExit
    \/ \E c \in ShutdownCallers : shutdown_all_ptys(c)

\* the shutdown command: the cascade, then the exit of the app
NextExit ==
    \/ SpawnPty
    \/ ProcFork
    \/ ProcExit
    \/ \E c \in ShutdownCallers : shutdown_all_ptys(c)
    \/ \E c \in ShutdownCallers : AppExit(c)

(***************************************************************************)
(* The watcher registries: WATCHERS, MERGE_WATCHERS, REBASE_WATCHERS,      *)
(* CONFIG_WATCHER, and the threads they start.                             *)
(***************************************************************************)
KeyedKinds == {"file", "merge", "rebase"}
StateKinds == {"merge", "rebase"}
Kinds == KeyedKinds \cup {"config"}

WATCHERS == registry["file"]
MERGE_WATCHERS == registry["merge"]
REBASE_WATCHERS == registry["rebase"]
CONFIG_WATCHER == registry["config"]

\* Each Instant is read in ticks of the period it is compared with.  The
\* receive timeout is shorter than either period, so one pass through
\* recv_timeout moves an Instant::elapsed() reading by 0 or 1 tick.
DebounceMs(kind) == IF kind = "config" THEN ConfigDebounceMs ELSE FileDebounceMs

Advances(period) == IF RecvTimeoutMs < period THEN {0, 1} ELSE {1}

debounce_duration(kind) == DebounceMs(kind) \div DebounceMs(kind)

existence_check_interval == ExistenceCheckMs \div ExistenceCheckMs

\* the event a state watcher emits when its marker is gone
CompleteEvent(kind) == IF kind = "merge" THEN "merge-complete" ELSE "rebase-complete"

Min(a, b) == IF a < b THEN a ELSE b

\* map m without key k
Without(m, k) == [x \in DOMAIN m \ {k} |-> m[x]]

\* map m with k bound to v
With(m, k, v) == [x \in DOMAIN m \cup {k} |-> IF x = k THEN v ELSE m[x]]

\* contains_key
Registered(kind, key) == key \in DOMAIN registry[kind]

\* a thread as thread::spawn creates it
NewTask(kind, key) ==
    [kind |-> kind, key |-> key,
     pc |-> IF kind \in StateKinds THEN "top" ELSE "start",
     stop |-> FALSE,        \* a message is waiting in stop_rx
     watching |-> FALSE,    \* watcher.watch succeeded for a target path
     pending |-> FALSE,     \* pending_update
     quiet |-> 0,           \* ticks since last_event_time
     since_check |-> 0,     \* ticks since last_existence_check
     queue |-> <<>>,        \* notifications waiting in rx
     burst |-> 0,           \* notifications folded into the pending update
     git_ok |-> TRUE,       \* the last git::get_changed_files returned Ok
     out |-> <<>>,          \* events emitted through app.emit
     why |-> "none"]        \* which break ended the loop

TaskIds == 1..Len(tasks)
Live(i) == i \in TaskIds /\ tasks[i].pc # "done"

WcIdle == [pc |-> "idle", kind |-> "none", key |-> "none", ret |-> "none"]

\* calls that may still spawn a thread
CallsInFlight == Cardinality({c \in WatchCallers : wc[c].pc # "idle"})
MaySpawn(max) == Len(tasks) + CallsInFlight < max

\* ---- register: watch_worktree, watch_merge_state, watch_rebase_state ----

\* mutant of AlreadyWatching: the membership test is dropped
AlreadyWatching_Never(kind, key) == FALSE

\* the membership test of a register call, under the registry lock
AlreadyWatching(kind, key) == Registered(kind, key)

\* first lock: return when the key is registered
RegisterCheck(c, kind, key, max) ==
    /\ wc[c].pc = "idle"
    /\ MaySpawn(max) \/ Registered(kind, key)
    /\ IF AlreadyWatching(kind, key)
       THEN wc' = [wc EXCEPT ![c] = [pc |-> "idle", kind |-> kind, key |-> key,
                                     ret |-> "noop"]]
       ELSE wc' = [wc EXCEPT ![c] = [pc |-> IF kind \in StateKinds THEN "marker"
                                            ELSE "insert",
                                     kind |-> kind, key |-> key, ret |-> "none"]]
    /\ UNCHANGED <<registry, tasks, root_exists, marker, fs_sent, markers_made>>
    /\ UNCHANGED <<pumpVars, ptyVars, sessVars>>

\* mutant of RegisterMarker: the marker is not tested
RegisterMarker_NoTest(c) ==
    /\ wc[c].pc = "marker"
    /\ wc' = [wc EXCEPT ![c].pc = "insert"]
    /\ UNCHANGED <<registry, tasks, root_exists, marker, fs_sent, markers_made>>
    /\ UNCHANGED <<pumpVars, ptyVars, sessVars>>

\* resolve_git_dir and the marker test of the state watchers
RegisterMarker(c) ==
    /\ wc[c].pc = "marker"
    /\ \E git_dir_resolved \in BOOLEAN :
         IF git_dir_resolved /\ marker[wc[c].kind][wc[c].key]
         THEN wc' = [wc EXCEPT ![c].pc = "insert"]
         ELSE wc' = [wc EXCEPT ![c].pc = "idle", ![c].ret = "not-started"]
    /\ UNCHANGED <<registry, tasks, root_exists, marker, fs_sent, markers_made>>
    /\ UNCHANGED <<pumpVars, ptyVars, sessVars>>

\* second lock: insert the new Sender, then thread::spawn
RegisterInsert(c) ==
    /\ wc[c].pc = "insert"
    /\ wc[c].kind \in KeyedKinds
    /\ registry' = [registry EXCEPT ![wc[c].kind] = With(@, wc[c].key, Len(tasks) + 1)]
    /\ tasks' = Append(tasks, NewTask(wc[c].kind, wc[c].key))
    /\ wc' = [wc EXCEPT ![c].pc = "idle", ![c].ret = "started"]
    /\ UNCHANGED <<root_exists, marker, fs_sent, markers_made>>
    /\ UNCHANGED <<pumpVars, ptyVars, sessVars>>

\* ---- cancel: stop_watching, stop_merge_watcher, stop_rebase_watcher,
\*      stop_config_watcher: remove the Sender and send on it ----
SendStop(ts, ids) == [i \in DOMAIN ts |-> IF i \in ids THEN [ts[i] EXCEPT !.stop = TRUE] ELSE ts[i]]

Cancel(kind, key) ==
    /\ Registered(kind, key)
    /\ registry' = [registry EXCEPT ![kind] = Without(@, key)]
    /\ tasks' = SendStop(tasks, {registry[kind][key]})
    /\ UNCHANGED <<wc, root_exists, marker, fs_sent, markers_made>>
    /\ UNCHANGED <<pumpVars, ptyVars, sessVars>>

\* stop_all_watchers: take the whole WATCHERS map and send on every Sender
stop_all_watchers ==
    /\ DOMAIN WATCHERS # {}
    /\ registry' = [registry EXCEPT !["file"] = <<>>]
    /\ tasks' = SendStop(tasks, {WATCHERS[k] : k \in DOMAIN WATCHERS})
    /\ UNCHANGED <<wc, root_exists, marker, fs_sent, markers_made>>
    /\ UNCHANGED <<pumpVars, ptyVars, sessVars>>

\* ---- watch_config ----

\* stop_config_watcher(), then the watch targets; none: return
WatchConfigStop(c) ==
    /\ wc[c].pc = "idle"
    /\ MaySpawn(MaxConfigTasks)
    /\ registry' = [registry EXCEPT !["config"] = <<>>]
    /\ tasks' = SendStop(tasks, {CONFIG_WATCHER[k] : k \in DOMAIN CONFIG_WATCHER})
    /\ \E targets_empty \in BOOLEAN :
         wc' = [wc EXCEPT ![c] = [pc |-> IF targets_empty THEN "idle" ELSE "insert",
                                  kind |-> "config", key |-> ConfigKey,
                                  ret |-> IF targets_empty THEN "not-started" ELSE "none"]]
    /\ UNCHANGED <<root_exists, marker, fs_sent, markers_made>>
    /\ UNCHANGED <<pumpVars, ptyVars, sessVars>>

\* *CONFIG_WATCHER.lock() = Some(stop_tx), then thread::spawn
WatchConfigSet(c) ==
    /\ wc[c].pc = "insert"
    /\ wc[c].kind = "config"
    /\ registry' = [registry EXCEPT !["config"] = With(<<>>, ConfigKey, Len(tasks) + 1)]
    /\ tasks' = Append(tasks, NewTask("config", ConfigKey))
    /\ wc' = [wc EXCEPT ![c].pc = "idle", ![c].ret = "started"]
    /\ UNCHANGED <<root_exists, marker, fs_sent, markers_made>>
    /\ UNCHANGED <<pumpVars, ptyVars, sessVars>>

\* ---- the watcher threads ----
Task(i, t) == tasks' = [tasks EXCEPT ![i] = t]

\* Watcher::new and watcher.watch: on failure remove the key and return; the
\* config watcher only logs a failed watcher.watch and goes on
TaskStart(i) ==
    /\ Live(i) /\ tasks[i].pc = "start"
    /\ \E created \in BOOLEAN, watched \in BOOLEAN :
         LET t == tasks[i]
             ok == IF t.kind = "file"
                   THEN created /\ watched /\ root_exists[t.key]
                   ELSE created
         IN IF ok
            THEN /\ Task(i, [t EXCEPT !.pc = "top", !.watching = watched])
                 /\ UNCHANGED registry
            ELSE /\ Task(i, [t EXCEPT !.pc = "done", !.why = "failed"])
                 /\ registry' = [registry EXCEPT ![t.kind] = Without(@, t.key)]
    /\ UNCHANGED <<wc, root_exists, marker, fs_sent, markers_made>>
    /\ UNCHANGED <<pumpVars, ptyVars, sessVars>>

\* mutant of StopRequested: the stop channel is never looked at
StopRequested_Never(t) == FALSE

\* stop_rx.try_recv().is_ok()
StopRequested(t) == t.stop

\* top of the loop: the check for the stop signal
TaskLoopTop(i) ==
    /\ Live(i) /\ tasks[i].pc = "top"
    /\ LET t == tasks[i] IN
        IF StopRequested(t)
        THEN Task(i, [t EXCEPT !.stop = FALSE, !.pc = "exiting", !.why = "stop"])
        ELSE Task(i, [t EXCEPT !.pc = IF t.kind \in StateKinds THEN "poll" ELSE "recv"])
    /\ UNCHANGED <<registry, wc, root_exists, marker, fs_sent, markers_made>>
    /\ UNCHANGED <<pumpVars, ptyVars, sessVars>>

\* mutant of MarksPending: every event counts, whatever its paths
MarksPending_Unfiltered(e) == e # "error"

\* Ok(Ok(event)) marks an update pending: is_config_file for the config
\* watcher, every event for the file-change watcher
MarksPending(e) == e = "change"

\* rx.recv_timeout(100 ms): a notification, or the timeout; meanwhile the
\* two elapsed() readings move on by dq and dc ticks
TaskRecvAdv(i, dq, dc) ==
    /\ Live(i) /\ tasks[i].pc = "recv"
    /\ LET t == tasks[i]
           next == IF t.kind = "file" THEN "exist" ELSE "debounce"
           check == IF t.kind = "file"
                    THEN Min(t.since_check + dc, existence_check_interval)
                    ELSE t.since_check
           \* last_event_time is read only while an update is pending
           quiet == IF t.pending
                    THEN Min(t.quiet + dq, debounce_duration(t.kind))
                    ELSE t.quiet
       IN
        IF t.queue # <<>>
        THEN IF MarksPending(Head(t.queue))
             THEN Task(i, [t EXCEPT !.queue = Tail(@), !.pending = TRUE,
                                    !.quiet = 0, !.since_check = check,
                                    !.burst = IF t.pending THEN Min(@ + 1, MaxFsEvents + 1) ELSE 1,
                                    !.pc = next])
             ELSE Task(i, [t EXCEPT !.queue = Tail(@), !.since_check = check,
                                    !.quiet = quiet, !.pc = next])
        ELSE Task(i, [t EXCEPT !.quiet = quiet, !.since_check = check,
                               !.pc = next])
    /\ UNCHANGED <<registry, wc, root_exists, marker, fs_sent, markers_made>>
    /\ UNCHANGED <<pumpVars, ptyVars, sessVars>>

TaskRecv(i) ==
    \E dq \in Advances(DebounceMs(tasks[i].kind)), dc \in Advances(ExistenceCheckMs) :
        TaskRecvAdv(i, dq, dc)

\* mutant of RootGone: the negation is lost
RootGone_Inverted(t) == root_exists[t.key]

\* !path.exists()
RootGone(t) == ~root_exists[t.key]

\* the periodic existence check of the worktree folder
TaskExistence(i) ==
    /\ Live(i) /\ tasks[i].pc = "exist"
    /\ LET t == tasks[i] IN
        IF t.since_check >= existence_check_interval
        THEN IF RootGone(t)
             THEN Task(i, [t EXCEPT !.since_check = 0, !.pc = "exiting",
                                    !.why = "removed",
                                    !.out = Append(@, "worktree-removed")])
             ELSE Task(i, [t EXCEPT !.since_check = 0, !.pc = "debounce"])
        ELSE Task(i, [t EXCEPT !.pc = "debounce"])
    /\ UNCHANGED <<registry, wc, root_exists, marker, fs_sent, markers_made>>
    /\ UNCHANGED <<pumpVars, ptyVars, sessVars>>

\* mutant of DebounceExpired: the pending update fires without the quiet period
DebounceExpired_NoQuiet(t) == t.pending

\* the quiet period has elapsed
DebounceExpired(t) == t.pending /\ t.quiet >= debounce_duration(t.kind)

\* mutant of FireEvents: the update is emitted twice
FireEvents_Twice(kind, git_ok) ==
    IF kind = "config" THEN <<"config-changed", "config-changed">>
    ELSE <<"files-changed", "files-changed">>

\* the events of one debounce fire; git::get_changed_files may fail
FireEvents(kind, git_ok) ==
    IF kind = "config" THEN <<"config-changed">>
    ELSE IF git_ok THEN <<"files-changed">> ELSE <<>>

\* process the pending update after the debounce period of quiet
TaskDebounce(i) ==
    /\ Live(i) /\ tasks[i].pc = "debounce"
    /\ LET t == tasks[i] IN
        IF DebounceExpired(t)
        THEN \E git_ok \in BOOLEAN :
               /\ t.kind = "config" => git_ok
               /\ Task(i, [t EXCEPT !.pending = FALSE, !.pc = "top",
                                    !.quiet = 0, !.git_ok = git_ok,
                                    !.out = @ \o FireEvents(t.kind, git_ok)])
        ELSE Task(i, [t EXCEPT !.pc = "top"])
    /\ UNCHANGED <<registry, wc, root_exists, marker, fs_sent, markers_made>>
    /\ UNCHANGED <<pumpVars, ptyVars, sessVars>>

\* mutant of MarkerGone: the negation is lost
MarkerGone_Inverted(t) == marker[t.kind][t.key]

\* !merge_head_path.exists(), resp. both rebase directories gone
MarkerGone(t) == ~marker[t.kind][t.key]

\* the state watchers: is the marker still there, else sleep(500 ms)
TaskPoll(i) ==
    /\ Live(i) /\ tasks[i].pc = "poll"
    /\ LET t == tasks[i] IN
        IF MarkerGone(t)
        THEN Task(i, [t EXCEPT !.pc = "exiting", !.why = "complete",
                               !.out = Append(@, CompleteEvent(t.kind))])
        ELSE Task(i, [t EXCEPT !.pc = "top"])
    /\ UNCHANGED <<registry, wc, root_exists, marker, fs_sent, markers_made>>
    /\ UNCHANGED <<pumpVars, ptyVars, sessVars>>

\* after the loop: remove the key from the registry of the kind; the
\* thread returns and its locals (watcher, rx, timers) are dropped
TaskExit(i) ==
    /\ Live(i) /\ tasks[i].pc = "exiting"
    /\ Task(i, [tasks[i] EXCEPT !.pc = "done", !.queue = <<>>, !.pending = FALSE,
                                !.watching = FALSE,
                                !.quiet = 0, !.since_check = 0, !.burst = 0,
                                !.git_ok = TRUE])
    /\ registry' = [registry EXCEPT ![tasks[i].kind] = Without(@, tasks[i].key)]
    /\ UNCHANGED <<wc, root_exists, marker, fs_sent, markers_made>>
    /\ UNCHANGED <<pumpVars, ptyVars, sessVars>>

TaskStep(i) ==
    \/ TaskStart(i) \/ TaskLoopTop(i) \/ (i \in TaskIds /\ TaskRecv(i)) \/ TaskExistence(i)
    \/ TaskDebounce(i) \/ TaskPoll(i) \/ TaskExit(i)

\* ---- the environment ----

\* what the notify callback sends: for the config watcher an event on a
\* config file ("change"), an event on another file of the watched
\* directory ("other") or a notify error; the file-change thread takes every
\* event as a change (its error branch only logs and is left out)
Notifications(kind) ==
    IF kind = "config" THEN {"change", "other", "error"} ELSE {"change"}

\* the notify watcher of a running task delivers a notification
FsEvent(i) ==
    /\ Live(i) /\ tasks[i].kind \in {"file", "config"}
    /\ tasks[i].pc \notin {"start", "exiting"}
    /\ tasks[i].watching
    /\ tasks[i].kind = "file" => root_exists[tasks[i].key]
    /\ fs_sent < MaxFsEvents
    /\ fs_sent' = fs_sent + 1
    /\ \E e \in Notifications(tasks[i].kind) :
        Task(i, [tasks[i] EXCEPT !.queue = Append(@, e)])
    /\ UNCHANGED <<registry, wc, root_exists, marker, markers_made>>
    /\ UNCHANGED <<pumpVars, ptyVars, sessVars>>

\* the worktree folder is deleted externally
DeleteRoot(key) ==
    /\ root_exists[key]
    /\ root_exists' = [root_exists EXCEPT ![key] = FALSE]
    /\ UNCHANGED <<registry, tasks, wc, marker, fs_sent, markers_made>>
    /\ UNCHANGED <<pumpVars, ptyVars, sessVars>>

\* a merge (rebase) starts
MarkerCreate(kind, key) ==
    /\ ~marker[kind][key]
    /\ markers_made < MaxMarkers
    /\ markers_made' = markers_made + 1
    /\ marker' = [marker EXCEPT ![kind][key] = TRUE]
    /\ UNCHANGED <<registry, tasks, wc, root_exists, fs_sent>>
    /\ UNCHANGED <<pumpVars, ptyVars, sessVars>>

\* the merge (rebase) is committed or aborted
MarkerDelete(kind, key) ==
    /\ marker[kind][key]
    /\ marker' = [marker EXCEPT ![kind][key] = FALSE]
    /\ UNCHANGED <<registry, tasks, wc, root_exists, fs_sent, markers_made>>
    /\ UNCHANGED <<pumpVars, ptyVars, sessVars>>

InitWatch ==
    /\ registry = [k \in Kinds |-> <<>>]
    /\ tasks = <<>>
    /\ wc = [c \in WatchCallers |-> WcIdle]
    /\ root_exists = [k \in Keys |-> TRUE]
    /\ marker = [k \in StateKinds |-> [key \in Keys |-> FALSE]]
    /\ fs_sent = 0
    /\ markers_made = 0

\* the registry of the keyed kinds in `kinds`, called by the threads `callers`
NextKeyed(callers, kinds, max) ==
    \/ \E c \in callers, kind \in kinds, key \in Keys : RegisterCheck(c, kind, key, max)
    \/ \E c \in callers : RegisterInsert(c)
    \/ \E kind \in kinds, key \in Keys : Cancel(kind, key)
    \/ \E i \in TaskIds : TaskLoopTop(i)
    \/ \E i \in TaskIds : TaskExit(i)

NextStateWatch(kinds) ==
    \/ \E c \in WatchCallers : RegisterMarker(c)
    \/ \E i \in TaskIds : TaskPoll(i)
    \/ \E kind \in kinds, key \in Keys : MarkerCreate(kind, key)
    \/ \E kind \in kinds, key \in Keys : MarkerDelete(kind, key)

NextFsWatch ==
    \/ \E i \in TaskIds : TaskStart(i)
    \/ \E i \in TaskIds : TaskRecv(i)
    \/ \E i \in TaskIds : TaskDebounce(i)
    \/ \E i \in TaskIds : FsEvent(i)

NextFileWatch ==
    \/ \E i \in TaskIds : TaskExistence(i)
    \/ \E key \in Keys : DeleteRoot(key)
    \/ stop_all_watchers

NextConfigWatch(callers) ==
    \/ \E c \in callers : WatchConfigStop(c)
    \/ \E c \in callers : WatchConfigSet(c)
    \/ Cancel("config", ConfigKey)
    \/ \E i \in TaskIds : TaskLoopTop(i)
    \/ \E i \in TaskIds : TaskExit(i)

\* merge watchers, two calling threads
NextMerge == NextKeyed(WatchCallers, {"merge"}, MaxTasks) \/ NextStateWatch({"merge"})

\* rebase watchers, two calling threads
NextRebase == NextKeyed(WatchCallers, {"rebase"}, MaxTasks) \/ NextStateWatch({"rebase"})

\* file-change watchers, one calling thread
NextFile == NextFileWatch \/ NextKeyed({"ui"}, {"file"}, MaxFileTasks) \/ NextFsWatch

\* the config watcher, two calling threads
NextConfig == NextConfigWatch(WatchCallers) \/ NextFsWatch

\* the most threads any of the specifications starts
MaxThreads ==
    IF MaxTasks >= MaxFileTasks /\ MaxTasks >= MaxConfigTasks THEN MaxTasks
    ELSE IF MaxFileTasks >= MaxConfigTasks THEN MaxFileTasks
    ELSE MaxConfigTasks

\* a thread scheduled by the operating system eventually runs, a call in
\* progress returns, and time passes while a thread waits in recv_timeout
WatchFairness(max) ==
    /\ \A i \in 1..max : WF_vars(TaskStep(i))
    /\ \A i \in 1..max : SF_vars(TaskRecvAdv(i, 1, 1))
    /\ \A c \in WatchCallers :
         WF_vars(RegisterMarker(c) \/ RegisterInsert(c) \/ WatchConfigSet(c))

StateWatchFairness(max) ==
    /\ \A i \in 1..max : WF_vars(TaskStep(i))
    /\ \A c \in WatchCallers : WF_vars(RegisterMarker(c) \/ RegisterInsert(c))

\* one session is being pumped; spawn_pty has tracked its pid
Init == InitPump /\ InitPty /\ InitWatch /\ InitSess(add_pid({}, PumpedPid))

InitIdle == InitNoPump /\ InitPty /\ InitWatch /\ InitSess({})

SpecPump == Init /\ [][NextPump]_vars

\* the pumped session writes at most one byte
InitRetry ==
    InitPumpOn(SeqsUpTo(1)) /\ InitPty /\ InitWatch /\ InitSess(add_pid({}, PumpedPid))

\* the reader thread keeps running: it reads again while it is in the loop,
\* child.wait() returns and pty-exit is emitted; what a read returns is up
\* to the reader
FairSpecRetry ==
    /\ InitRetry
    /\ [][NextPump]_vars
    /\ WF_vars((ReadData \/ ReadZero \/ ReadWouldBlock \/ ReadError)
                    /\ UNCHANGED <<resolveVars, ptyVars, watchVars, sessVars>>)
    /\ WF_vars(PumpWait /\ UNCHANGED <<resolveVars, ptyVars, watchVars, calls, calls_made,
                                       force_done, reader_threads, io, pgid>>)
    /\ WF_vars(PumpExit /\ UNCHANGED <<resolveVars, ptyVars, watchVars, sessVars>>)

\* the pumped session writes one of the streams around the ready threshold
InitReady ==
    InitPumpOn(ReadyStreams) /\ InitPty /\ InitWatch /\ InitSess(add_pid({}, PumpedPid))

SpecReady == InitReady /\ [][NextPump]_vars

SpecShutdown == InitIdle /\ [][NextShutdown]_vars

SpecSession == InitIdle /\ [][NextSession]_vars

SpecHandles == InitIdle /\ [][NextHandles]_vars

SpecSoft == InitIdle /\ [][NextSoft]_vars

SpecNoPid == InitIdle /\ [][NextNoPid]_vars

SpecExit == InitIdle /\ [][NextExit]_vars

\* one spawn_pty call with any of the requests
InitCommand ==
    /\ InitResolveOn(Requests \ {NoRequest})
    /\ stream = <<>> /\ pos = 0 /\ utf8_buf = <<>> /\ consecutive_empty = 0
    /\ total_bytes = 0 /\ ready_emitted = FALSE /\ pump_pc = "reading"
    /\ last_read = "none" /\ pty_events = <<>>
    /\ InitPty /\ InitWatch /\ InitSess({})

SpecCommand == InitCommand /\ [][NextCommand]_vars

SpecCache == InitIdle /\ [][NextCache]_vars

SpecMerge == InitIdle /\ [][NextMerge]_vars
SpecRebase == InitIdle /\ [][NextRebase]_vars
SpecFile == InitIdle /\ [][NextFile]_vars
SpecConfig == InitIdle /\ [][NextConfig]_vars

FairSpecMerge == SpecMerge /\ StateWatchFairness(MaxTasks)
FairSpecFile == SpecFile /\ WatchFairness(MaxFileTasks)
FairSpecConfig == SpecConfig /\ WatchFairness(MaxConfigTasks)

(***************************************************************************)
(* Properties of the output pump.                                          *)
(***************************************************************************)
\* the pty-output chunks emitted so far, in order
Chunks == SelectSeq(pty_events, LAMBDA e : e.name = "pty-output")

RECURSIVE Flatten(_)
Flatten(ss) == IF ss = <<>> THEN <<>> ELSE Head(ss) \o Flatten(Tail(ss))

\* the bytes the reader has returned so far
BytesRead == SubSeq(stream, 1, pos)

ChunkBytes == Flatten([i \in 1..Len(Chunks) |-> Chunks[i].data])

\* C1: every pty-output chunk the pump emits is valid UTF-8 and not empty,
\* whatever the stream and however it is split across reads; the bytes read
\* and not yet emitted are exactly the carry-over buffer, so a sequence that
\* straddles two reads is held back whole and never emitted in part.
C1_ChunksValidUtf8 ==
    /\ \A i \in 1..Len(Chunks) :
          Chunks[i].data # <<>> /\ IsValidUtf8(Chunks[i].data)
    /\ ChunkBytes \o utf8_buf = BytesRead

\* C1 witness: "caf\xC3" then "\xA9" (here a, 0xC3 | 0xA9): the lead byte was
\* held back by the first read and emitted with its continuation by the next
C1_Witness ==
    /\ stream = <<97, 195, 169>>
    /\ pty_events = <<Ev("pty-output", <<97>>), Ev("pty-output", <<195, 169>>)>>
    /\ utf8_buf = <<>>

\* C2: once the read loop ended at end of file and pty-exit was emitted, the
\* concatenation of the emitted chunks is the decoding of all bytes read: no
\* byte was dropped or duplicated.
C2_ConcatEqualsDecoding ==
    (pump_pc = "exited" /\ last_read = "zero" /\ pos = Len(stream))
        => ChunkBytes = Utf8Decode(stream)

IsPrefix(a, b) == Len(a) <= Len(b) /\ SubSeq(b, 1, Len(a)) = a

\* the pty-exit events emitted so far
Exits == SelectSeq(pty_events, LAMBDA e : e.name = "pty-exit")

\* C22: a pump whose read loop has ended emits pty-exit exactly once, as its
\* last event: events are only ever appended, none after pty-exit; the
\* chunks carry the bytes in the order they were read; and the pid has left
\* the crash-recovery list before pty-exit is emitted.
C22_ExitOnceAndLast ==
    /\ [](/\ pump_pc = "exited" =>
                /\ Len(Exits) = 1
                /\ pty_events[Len(pty_events)].name = "pty-exit"
          /\ pump_pc # "exited" => Exits = <<>>
          /\ IsPrefix(ChunkBytes, BytesRead))
    /\ [][/\ IsPrefix(pty_events, pty_events')
          /\ pump_pc = "exited" => pty_events' = pty_events
          /\ Len(Exits') > Len(Exits) => PumpedPid \notin tracked_pids]_vars

\* C22 witness: two chunks, then pty-exit, the pid untracked
C22_Witness ==
    /\ pump_pc = "exited"
    /\ pty_events = <<Ev("pty-output", <<97>>), Ev("pty-output", <<195, 169>>),
                      Ev("pty-exit", <<>>)>>
    /\ tracked_pids = {}

\* the pty-ready events emitted so far
Readys == SelectSeq(pty_events, LAMBDA e : e.name = "pty-ready")

\* C23: pty-ready is emitted at most once, by the first read after which the
\* bytes read so far exceed the threshold of 50 and before that read's
\* chunk; a session whose output never exceeds the threshold ends with no
\* pty-ready event.
C23_ReadyOnceAtThreshold ==
    /\ [](/\ total_bytes = pos
          /\ Len(Readys) = (IF total_bytes > ReadyThreshold THEN 1 ELSE 0)
          /\ (pump_pc = "exited" /\ Len(stream) <= ReadyThreshold) => Readys = <<>>)
    /\ [][Len(Readys') > Len(Readys) =>
            /\ total_bytes <= ReadyThreshold /\ total_bytes' > ReadyThreshold
            /\ pty_events'[Len(pty_events) + 1].name = "pty-ready"]_vars

\* C23 witness: the first read stayed at the threshold, the second crossed
\* it and emitted pty-ready before its chunk, the third emitted its chunk
\* only
C23_Witness ==
    /\ Len(pty_events) = 4
    /\ [i \in 1..4 |-> pty_events[i].name]
         = <<"pty-output", "pty-ready", "pty-output", "pty-output">>
    /\ Len(pty_events[1].data) = ReadyThreshold

\* C24: the read loop retries only a bounded number of times: it never
\* stays in the loop with more than 10 zero-byte reads in a row, and a
\* reader that stops returning data makes the loop end, so that pty-exit is
\* always reached.
C24_LoopEnds ==
    /\ [](pump_pc = "reading" => consecutive_empty <= MaxConsecutiveEmpty)
    /\ <>(pump_pc = "exited")

\* buf is a proper prefix of one multi-byte UTF-8 sequence
IncompletePrefix(buf) ==
    /\ buf # <<>>
    /\ Len(buf) < Utf8CharWidth(buf[1])
    /\ Len(buf) >= 2 => SecondByteOk(buf[1], buf[2])
    /\ \A k \in 3..Len(buf) : IsCont(buf[k])

\* C28: after every read the carry-over buffer holds at most 3 bytes, and
\* what it holds is the incomplete beginning of one multi-byte sequence.
C28_CarryOverBounded ==
    /\ Len(utf8_buf) <= 3
    /\ utf8_buf # <<>> => IncompletePrefix(utf8_buf)

(***************************************************************************)
(* Properties of the shutdown cascade.                                     *)
(***************************************************************************)
\* the callers that got past the SHUTDOWN_IN_PROGRESS guard
CascadeRunners == {c \in ShutdownCallers : sd[c].pc # "idle" \/ sd[c].ret = "complete"}

\* the shutdown-progress phases emitted so far, in order
Phases == [i \in 1..Len(shutdown_events) |-> shutdown_events[i].phase]

\* the progress sequences one cascade emits
ProgressSequences ==
    { <<"complete">>,
      <<"starting", "signaling", "complete">>,
      <<"starting", "signaling", "signaling", "complete">> }

\* C10: of the callers of shutdown_all_ptys at most one runs the cascade;
\* all shutdown-progress events form one progress sequence of that caller
\* with at most one "complete", every signal of the cascade is sent by that
\* caller, and a caller that found the flag set returned without emitting
\* or signalling anything; when every caller has returned there is exactly
\* one "complete" event.
C10_ShutdownIdempotent ==
    /\ Cardinality(CascadeRunners) <= 1
    /\ \E q \in ProgressSequences : IsPrefix(Phases, q)
    /\ \A i \in 1..Len(shutdown_events) : shutdown_events[i].by \in CascadeRunners
    /\ \A p \in DOMAIN signals : \A i \in 1..Len(signals[p]) :
          signals[p][i].by \in ShutdownCallers => signals[p][i].by \in CascadeRunners
    /\ (\A c \in ShutdownCallers : sd[c].pc = "idle" /\ sd[c].ret # "none")
          => Cardinality({i \in 1..Len(Phases) : Phases[i] = "complete"}) = 1

\* C10 witness: one caller returned as a no-op while the other was in the
\* middle of the cascade and had already signalled a process
C10_Witness ==
    \E c1, c2 \in ShutdownCallers :
        /\ sd[c1].ret = "noop"
        /\ sd[c2].pc = "term"
        /\ \E p \in DOMAIN signals : signals[p] # <<>>

\* the signals the shutdown cascade delivered to process p, in order
CascadeSignals(p) ==
    LET s == SelectSeq(signals[p], LAMBDA e : e.by \in ShutdownCallers)
    IN [i \in 1..Len(s) |-> s[i].sig]

\* the tiers of the cascade, in order
Tiers == <<"SIGHUP", "SIGTERM", "SIGKILL">>

SeqToSet(q) == {q[i] : i \in DOMAIN q}

NoDuplicates(q) == \A i, j \in DOMAIN q : i # j => q[i] # q[j]

\* the lists of pids, with repetitions, up to MaxPids entries
RECURSIVE PidListsUpTo(_)
PidListsUpTo(n) ==
    IF n = 0 THEN {<<>>}
    ELSE LET shorter == PidListsUpTo(n - 1) IN
         shorter \cup {Append(q, p) : q \in {t \in shorter : Len(t) = n - 1}, p \in Pids}

EmitsComplete ==
    /\ Len(shutdown_events') = Len(shutdown_events) + 1
    /\ shutdown_events'[Len(shutdown_events')].phase = "complete"

\* C12: when the cascade emits its final "complete" event, the session
\* table, the writer table and the master table are all empty.
C12_TablesEmptyAtComplete ==
    [][EmitsComplete
         => (DOMAIN pty_sessions' = {} /\ PTY_WRITERS' = {} /\ PTY_MASTERS' = {})]_vars

\* C13: a cascade that finds no registered session emits "complete" at once
\* and returns: that one step sends no signal, touches no table and passes no
\* grace window (it never enters a signalling phase), and when the call has
\* returned "complete" is the only shutdown-progress event and the caller has
\* signalled nothing.
C13_NoSessionsCompleteAtOnce ==
    /\ [][\A c \in ShutdownCallers :
            (sd[c].pc = "snapshot" /\ sd'[c] # sd[c] /\ DOMAIN pty_sessions = {})
              => /\ sd'[c].pc = "idle" /\ sd'[c].ret = "complete"
                 /\ shutdown_events' = Append(shutdown_events, Progress("complete", c))
                 /\ signals' = signals
                 /\ UNCHANGED <<pty_sessions, PTY_WRITERS, PTY_MASTERS>>]_vars
    /\ [](\A c \in ShutdownCallers :
            (sd[c].ret = "complete" /\ sd[c].sessions = <<>>)
              => /\ shutdown_events = <<Progress("complete", c)>>
                 /\ \A p \in DOMAIN signals : \A i \in DOMAIN signals[p] :
                       signals[p][i].by # c)

\* C13 witness: the cascade ran with no session and returned after its only
\* event, while a process of a session spawned afterwards is running
C13_Witness ==
    \E c \in ShutdownCallers :
        /\ sd[c].ret = "complete" /\ sd[c].sessions = <<>>
        /\ shutdown_events = <<Progress("complete", c)>>
        /\ alive # {}

(***************************************************************************)
(* Properties of the commands on one session.                              *)
(***************************************************************************)
\* the processes of the session whose reader thread is `id`: its root and
\* the descendants, which stay in the root's process group
SessionProcs(id) ==
    IF id \in DOMAIN reader_threads
    THEN {p \in DOMAIN pgid : pgid[p] = reader_threads[id].child_pid}
    ELSE {}

\* the signals a step delivers to process p
Delivered(p) ==
    {signals'[p][i].sig : i \in (Len(signals[p]) + 1)..Len(signals'[p])}

InNoTable(id) ==
    id \notin DOMAIN pty_sessions /\ id \notin PTY_WRITERS /\ id \notin PTY_MASTERS

\* C14: once force_kill_pty has completed for an id, no SIGTERM and no SIGINT
\* is delivered to a process of that session any more, not even by a kill_pty
\* or interrupt_pty call that started before, and the id is in no table.
C14_NothingAfterForceKill ==
    /\ [][\A id \in force_done : \A p \in SessionProcs(id) :
            Delivered(p) \cap {"SIGTERM", "SIGINT"} = {}]_vars
    /\ [](\A id \in force_done : InNoTable(id))

\* the running processes reachable from the members of S through running
\* children, in at most n generations
RECURSIVE Reach(_, _)
Reach(S, n) ==
    IF n = 0 THEN S
    ELSE Reach(S \cup {p \in alive : parent[p] \in S}, n - 1)

\* the running descendants of pid
AliveDescendants(pid) == Reach({pid}, Cardinality(DOMAIN parent)) \ {pid}

\* a step of a call of `op` by thread c that has read the session's pid
StepOf(c, op) == calls[c].op = op /\ calls[c].pc # "idle" /\ calls'[c] # calls[c]

\* the step delivers `sig` from c to process p if it runs, and nothing else
DeliversOnly(c, p, sig) ==
    /\ p \in alive => signals'[p] = Append(signals[p], [sig |-> sig, by |-> c])
    /\ p \notin alive => signals' = signals
    /\ \A q \in DOMAIN signals \ {p} : signals'[q] = signals[q]

\* C15: force_kill_pty sends SIGKILL to every descendant it discovered and
\* then to the root, and when it returns the id is in none of the three
\* tables, whether or not a signal was delivered and whether or not the
\* reader thread has seen the exit.
C15_ForceKillRemovesEntries ==
    /\ [][\A c \in CmdCallers : StepOf(c, "force_kill_pty") =>
            LET call == calls[c]
                new == calls'[c] IN
            /\ call.pc = "discover" =>
                 /\ new.pc = "send"
                 /\ new.todo[Len(new.todo)] = call.pid
                 /\ SeqToSet(SubSeq(new.todo, 1, Len(new.todo) - 1))
                        = AliveDescendants(call.pid)
            /\ call.pc = "send" =>
                 /\ DeliversOnly(c, Head(call.todo), "SIGKILL")
                 /\ Head(call.todo) \notin alive'
                 /\ IF Len(call.todo) > 1
                    THEN new.pc = "send" /\ new.todo = Tail(call.todo)
                    ELSE new.pc = "cleanup"
            /\ new.pc = "idle" =>
                 /\ call.pc = "cleanup"
                 /\ new.ret = <<"Ok">>
                 /\ call.id \notin DOMAIN pty_sessions'
                 /\ call.id \notin PTY_WRITERS'
                 /\ call.id \notin PTY_MASTERS']_vars
    /\ [][\A c \in CmdCallers :
            (calls[c].pc = "idle" /\ calls'[c].op = "force_kill_pty" /\ calls'[c] # calls[c])
                => calls'[c].pc \in {"discover", "cleanup"}]_vars

\* C15 witness: force_kill_pty has returned for a session after it killed a
\* descendant and the root; the reader thread has not yet seen the exit
C15_Witness ==
    \E c \in CmdCallers : \E id \in DOMAIN reader_threads :
        /\ calls[c] = Returned([CallIdle EXCEPT !.op = "force_kill_pty", !.id = id], <<"Ok">>)
        /\ reader_threads[id].pc = "running"
        /\ id \in force_done
        /\ \E p \in SessionProcs(id) \ {reader_threads[id].child_pid} :
             /\ signals[p] = <<[sig |-> "SIGKILL", by |-> c]>>
             /\ signals[reader_threads[id].child_pid] = <<[sig |-> "SIGKILL", by |-> c]>>

\* C16: kill_pty sends SIGTERM to every descendant it discovered before the
\* root, each process of the tree after all of its own descendants, and to
\* nothing else; it then returns Ok.
C16_KillPtyPostOrder ==
    [][\A c \in CmdCallers : StepOf(c, "kill_pty") =>
        LET call == calls[c]
            new == calls'[c] IN
        /\ call.pc = "discover" =>
             /\ new.pc = "send"
             /\ new.todo[Len(new.todo)] = call.pid
             /\ NoDuplicates(new.todo)
             /\ SeqToSet(new.todo) = AliveDescendants(call.pid) \cup {call.pid}
             /\ \A i, j \in DOMAIN new.todo :
                    new.todo[j] \in AliveDescendants(new.todo[i]) => j < i
        /\ call.pc = "send" =>
             /\ DeliversOnly(c, Head(call.todo), "SIGTERM")
             /\ alive' = alive
             /\ IF Len(call.todo) > 1
                THEN new.pc = "send" /\ new.todo = Tail(call.todo)
                ELSE new.pc = "idle" /\ new.ret = <<"Ok">>]_vars

\* C16 witness: kill_pty signalled a grandchild and then its parent; the
\* SIGTERM for the root is still to come
C16_Witness ==
    \E c \in CmdCallers : \E r, a, b \in alive :
        /\ calls[c].op = "kill_pty" /\ calls[c].pc = "send"
        /\ calls[c].pid = r /\ calls[c].todo = <<r>>
        /\ parent[a] = r /\ parent[b] = a
        /\ signals[a] = <<[sig |-> "SIGTERM", by |-> c]>>
        /\ signals[b] = <<[sig |-> "SIGTERM", by |-> c]>>
        /\ signals[r] = <<>>

\* C17: no step of kill_pty changes the session table, the writer table or
\* the master table, so an id that could be written to or resized before the
\* call still can be when the call has returned.
C17_KillPtyKeepsTables ==
    [][\A c \in CmdCallers :
        (calls'[c] # calls[c] /\ "kill_pty" \in {calls[c].op, calls'[c].op}
            /\ (calls[c].pc # "idle" \/ calls'[c].op = "kill_pty"))
        => /\ pty_sessions' = pty_sessions
           /\ PTY_WRITERS' = PTY_WRITERS
           /\ PTY_MASTERS' = PTY_MASTERS
           /\ (calls'[c].pc = "idle" => calls'[c].ret = <<"Ok">>)]_vars

\* C17 witness: the SIGTERM of a kill_pty reached the root of a session, the
\* call returned, and a later write on the same thread has found the writer
C17_Witness ==
    \E c \in CmdCallers : \E id \in DOMAIN pty_sessions :
        /\ signals[pty_sessions[id]] = <<[sig |-> "SIGTERM", by |-> c]>>
        /\ calls[c].op = "write_to_pty" /\ calls[c].id = id /\ calls[c].pc = "io"
        /\ id \in PTY_WRITERS /\ id \in PTY_MASTERS

\* C18: once the reader thread of a session has emitted pty-exit, the id is
\* in none of the tables: a later write or resize returns SessionNotFound
\* and a later kill finds no pid.
C18_ExitedSessionIsGone ==
    \A id \in DOMAIN reader_threads :
        reader_threads[id].pc = "exited" => InNoTable(id)

\* the steps of spawn_pty that return an error
SpawnPtyError == \E step \in FallibleSteps : SpawnPtyFails(step)

\* C19: a spawn_pty that returns an error leaves the session, writer and
\* master tables and the crash-recovery pid list as they were and starts no
\* reader thread.
C19_FailedSpawnChangesNothing ==
    [][SpawnPtyError =>
        /\ pty_sessions' = pty_sessions
        /\ PTY_WRITERS' = PTY_WRITERS
        /\ PTY_MASTERS' = PTY_MASTERS
        /\ tracked_pids' = tracked_pids
        /\ reader_threads' = reader_threads]_vars

\* the first step of a write_to_pty or resize_pty call by thread c
StartsHandleCall(c) ==
    /\ calls[c].pc = "idle"
    /\ calls'[c] # calls[c]
    /\ calls'[c].op \in {"write_to_pty", "resize_pty"}

\* C20: write_to_pty, resp. resize_pty, with an id that is not in the writer,
\* resp. master table returns SessionNotFound(id) at once: it does no I/O
\* and changes no table; only a call whose id is in the table goes on to the
\* I/O.
C20_UnknownIdNotFound ==
    [][\A c \in CmdCallers : StartsHandleCall(c) =>
        LET new == calls'[c]
            known == IF new.op = "write_to_pty" THEN new.id \in PTY_WRITERS
                     ELSE new.id \in PTY_MASTERS IN
        /\ known => new.pc = "io"
        /\ ~known => /\ new.pc = "idle"
                     /\ new.ret = <<"SessionNotFound", new.id>>
        /\ io' = io
        /\ pty_sessions' = pty_sessions
        /\ PTY_WRITERS' = PTY_WRITERS
        /\ PTY_MASTERS' = PTY_MASTERS]_vars

\* C20 witness: after a write to a registered session did its I/O, a resize
\* with an id no spawn returned has come back with SessionNotFound
C20_Witness ==
    \E c \in CmdCallers : \E id \in PTY_MASTERS :
        /\ calls[c] = Returned([CallIdle EXCEPT !.op = "resize_pty", !.id = NoSuchId],
                               <<"SessionNotFound", NoSuchId>>)
        /\ io = {<<"write_to_pty", id>>}

\* the three tables
Tables == <<pty_sessions, PTY_WRITERS, PTY_MASTERS>>

\* C21: interrupt_pty, kill_pty and force_kill_pty called with an id that is
\* not in the session table send no signal and return Ok; interrupt_pty and
\* kill_pty change no table, force_kill_pty leaves the id in none, and a
\* force_kill_pty for an id that is already in no table changes nothing.
C21_MissingSessionIsOk ==
    [][\A c \in CmdCallers :
        LET call == calls[c]
            new == calls'[c] IN
        /\ (/\ call.pc = "idle" /\ new # call
            /\ new.op \in {"interrupt_pty", "kill_pty", "force_kill_pty"}
            /\ new.id \notin DOMAIN pty_sessions)
           => /\ signals' = signals /\ alive' = alive
              /\ Tables' = Tables
              /\ IF new.op = "force_kill_pty"
                 THEN new.pc = "cleanup" /\ new.pid = 0
                 ELSE new.pc = "idle" /\ new.ret = <<"Ok">>
        /\ (call.pc = "cleanup" /\ call.pid = 0 /\ new # call)
           => /\ signals' = signals /\ alive' = alive
              /\ new.pc = "idle" /\ new.ret = <<"Ok">>
              /\ call.id \notin DOMAIN pty_sessions'
              /\ call.id \notin PTY_WRITERS'
              /\ call.id \notin PTY_MASTERS'
              /\ (InNoTable(call.id) => Tables' = Tables)]_vars

\* C21 witness: a second force_kill_pty for a session that an earlier one
\* removed has found no pid and is about to clean up, while another session
\* is registered
C21_Witness ==
    \E c \in CmdCallers : \E id \in force_done :
        /\ id \in DOMAIN reader_threads
        /\ calls[c].op = "force_kill_pty" /\ calls[c].id = id
        /\ calls[c].pc = "cleanup" /\ calls[c].pid = 0
        /\ DOMAIN pty_sessions # {}

\* the step of shutdown caller c delivers `sig` to every process of its list
\* that runs, whatever became of the other processes of the list
PhaseReachesAll(c, sig) ==
    \A p \in SeqToSet(sd[c].all_pids) \cap alive :
        signals'[p] = Append(signals[p], [sig |-> sig, by |-> c])

\* C25: a signal that cannot be delivered because its process has gone never
\* stops kill_pty, force_kill_pty or shutdown_all_ptys: the rest of the list
\* and the later tiers are still signalled, force_kill_pty and the shutdown
\* still clear the tables, and the operation returns Ok / emits "complete".
C25_SignalFailuresAreSoft ==
    [][/\ \A c \in CmdCallers : \A op \in {"kill_pty", "force_kill_pty"} :
            StepOf(c, op) =>
                LET call == calls[c]
                    new == calls'[c] IN
                /\ (call.pc = "send" /\ Head(call.todo) \notin alive) =>
                     /\ signals' = signals
                     /\ IF Len(call.todo) > 1
                        THEN new.pc = "send" /\ new.todo = Tail(call.todo)
                        ELSE IF op = "kill_pty"
                             THEN new.pc = "idle" /\ new.ret = <<"Ok">>
                             ELSE new.pc = "cleanup"
                /\ call.pc = "cleanup" =>
                     /\ new.pc = "idle" /\ new.ret = <<"Ok">>
                     /\ call.id \notin DOMAIN pty_sessions'
                     /\ call.id \notin PTY_WRITERS'
                     /\ call.id \notin PTY_MASTERS'
       /\ \A c \in ShutdownCallers : sd'[c] # sd[c] =>
            /\ sd[c].pc = "hup" =>
                 sd'[c].pc = "term" /\ PhaseReachesAll(c, "SIGHUP")
            /\ sd[c].pc = "term" =>
                 sd'[c].pc = "kill" /\ PhaseReachesAll(c, "SIGTERM")
            /\ sd[c].pc = "kill" =>
                 /\ sd'[c].pc = "cleanup" /\ PhaseReachesAll(c, "SIGKILL")
                 /\ SeqToSet(sd[c].all_pids) \cap alive' = {}
            /\ sd[c].pc = "cleanup" =>
                 /\ sd'[c].pc = "idle" /\ sd'[c].ret = "complete"
                 /\ shutdown_events' = Append(shutdown_events, Progress("complete", c))
                 /\ DOMAIN sd[c].sessions \cap DOMAIN pty_sessions' = {}
                 /\ DOMAIN sd[c].sessions \cap PTY_WRITERS' = {}
                 /\ DOMAIN sd[c].sessions \cap PTY_MASTERS' = {}]_vars

\* C25 witness: the first process of the shutdown's list had gone before the
\* SIGHUP phase and the second one received SIGHUP all the same, and a
\* force_kill_pty whose only signal went to the process that had gone is
\* about to clear the tables
C25_Witness ==
    \E c \in ShutdownCallers : \E k \in CmdCallers :
        /\ sd[c].pc = "term" /\ Len(sd[c].all_pids) = 2
        /\ sd[c].all_pids[1] \notin alive /\ signals[sd[c].all_pids[1]] = <<>>
        /\ signals[sd[c].all_pids[2]] = <<[sig |-> "SIGHUP", by |-> c]>>
        /\ calls[k].op = "force_kill_pty" /\ calls[k].pc = "cleanup"
        /\ calls[k].pid = sd[c].all_pids[1]

\* thread c may start a command now
MayCall(c) == calls[c].pc = "idle" /\ c = FreeCaller /\ calls_made < MaxCalls

C30_InterruptGroupThenRoot ==
    [][\A c \in CmdCallers :
        LET call == calls[c]
            new == calls'[c] IN
        /\ (call.pc = "idle" /\ new # call /\ new.op = "interrupt_pty"
              /\ new.id \in DOMAIN pty_sessions)
           => /\ new.pc = "group" /\ new.pid = pty_sessions[new.id]
              /\ signals' = signals /\ Tables' = Tables
        /\ (call.op = "interrupt_pty" /\ call.pc = "group" /\ new # call)
           => /\ \A p \in DOMAIN signals :
                   signals'[p] = IF p \in alive /\ pgid[p] = call.pid
                                 THEN Append(signals[p], [sig |-> "SIGINT", by |-> c])
                                 ELSE signals[p]
              /\ DOMAIN signals' = DOMAIN signals
              /\ alive' = alive /\ Tables' = Tables
              /\ new.pc = "idle" /\ new.ret = <<"Ok">>]_vars

\* C30 witness: interrupt_pty has returned after its group signal reached the
\* running root and a running child of it, once each
C30_Witness ==
    \E c \in CmdCallers : \E r, a \in alive :
        /\ calls[c].op = "interrupt_pty" /\ calls[c].pc = "idle"
        /\ calls[c].ret = <<"Ok">>
        /\ calls[c].id \in DOMAIN pty_sessions /\ pty_sessions[calls[c].id] = r
        /\ parent[a] = r
        /\ signals[r] = <<[sig |-> "SIGINT", by |-> c]>>
        /\ signals[a] = <<[sig |-> "SIGINT", by |-> c]>>

(***************************************************************************)
(* Properties of the watcher registries.                                   *)
(***************************************************************************)
\* the running threads of one kind watching one key
LiveTasks(kind, key) ==
    {i \in TaskIds : tasks[i].kind = kind /\ tasks[i].key = key /\ tasks[i].pc # "done"}

Done(i) == i \in TaskIds /\ tasks[i].pc = "done"

\* C3: in every reachable state there is at most one live watcher thread
\* per key and per kind of watcher.
C3_OneLiveTaskPerKey ==
    \A kind \in Kinds, key \in Keys \cup {ConfigKey} :
        Cardinality(LiveTasks(kind, key)) <= 1

\* a register call of c for (kind, key) is between its membership test and
\* its insertion
PastCheck(c, kind, key) ==
    wc[c].pc \in {"marker", "insert"} /\ wc[c].kind = kind /\ wc[c].key = key

\* C4: the membership test and the insertion of a register call are not
\* interleaved with those of another call for the same key: no two callers
\* are past the test for one unregistered key at the same time.
C4_RegistrationAtomic ==
    \A c1, c2 \in WatchCallers, kind \in KeyedKinds, key \in Keys :
        (PastCheck(c1, kind, key) /\ PastCheck(c2, kind, key)) => c1 = c2

C6_CancelEffective ==
    /\ \A i \in 1..MaxThreads :
          (i \in TaskIds /\ tasks[i].stop /\ tasks[i].pc # "done") ~> Done(i)
    /\ [][\A i \in TaskIds :
            /\ (~tasks[i].stop /\ tasks'[i].stop)
                 => (tasks'[i].pc = tasks[i].pc /\ tasks'[i].out = tasks[i].out)
            /\ (tasks[i].stop /\ ~tasks'[i].stop)
                 => (tasks[i].pc = "top" /\ tasks'[i].pc = "exiting"
                     /\ tasks'[i].out = tasks[i].out)
            /\ (tasks[i].stop /\ tasks[i].pc = "top" /\ tasks'[i].pc # "top")
                 => tasks'[i].pc = "exiting"
            /\ (tasks[i].pc = "exiting" /\ tasks'[i].pc = "done")
                 => ~Registered(tasks[i].kind, tasks[i].key)']_vars

\* C6 witness: a cancelled file-change thread observed the signal and exited
C6_Witness ==
    \E i \in TaskIds :
        /\ tasks[i].kind = "file" /\ tasks[i].pc = "done" /\ tasks[i].why = "stop"
        /\ ~Registered("file", tasks[i].key)

\* the debounce fire of thread i happens in this step: the pending update is
\* taken by the running thread (an exiting thread drops it)
Fires(i) == tasks[i].pending /\ ~tasks'[i].pending /\ tasks'[i].pc # "done"

\* C7 as claimed: a burst of notifications produces exactly one event: the
\* step that fires the pending update emits exactly one event.
C7_BurstEmitsExactlyOne ==
    [][\A i \in TaskIds :
         Fires(i) => Len(tasks'[i].out) = Len(tasks[i].out) + 1]_vars

\* C7 as amended: a burst of notifications is folded into one pending update,
\* which only a received notification sets; every notification received
\* resets the quiet timer; the update fires only when the quiet period has
\* elapsed since the last of them, and the fire emits one config-changed,
\* resp. one files-changed unless git::get_changed_files failed, in which case
\* it emits nothing; these events are emitted by no other step.
C7_DebounceCoalesces ==
    [][\A i \in TaskIds :
         LET t == tasks[i]
             u == tasks'[i] IN
         /\ Fires(i)
              => /\ t.pc = "debounce" /\ t.quiet >= debounce_duration(t.kind)
                 /\ t.burst >= 1
                 /\ u.out = t.out \o (IF t.kind = "config" THEN <<"config-changed">>
                                       ELSE IF u.git_ok THEN <<"files-changed">>
                                       ELSE <<>>)
         /\ (Len(u.out) > Len(t.out)
               /\ u.out[Len(u.out)] \in {"files-changed", "config-changed"})
              => Fires(i)
         /\ (Len(u.queue) < Len(t.queue) /\ u.pc # "done" /\ Head(t.queue) = "change")
              => (u.pending /\ u.quiet = 0)
         /\ (~t.pending /\ u.pending)
              => (Len(u.queue) < Len(t.queue) /\ Head(t.queue) = "change")]_vars

\* C7 witness: two notifications of one burst were answered by one
\* files-changed event
C7_Witness ==
    \E i \in TaskIds :
        /\ tasks[i].kind = "file" /\ tasks[i].burst = 2
        /\ ~tasks[i].pending /\ tasks[i].queue = <<>>
        /\ tasks[i].out = <<"files-changed">>

\* C8: a merge (rebase) watcher thread emits at most one event, its
\* completion event, only when the marker is gone, and then leaves the loop;
\* once the marker is gone the thread exits unless the marker comes back,
\* and when it has exited its key is not in the registry.
C8_MergeSelfTerminates ==
    /\ \A i \in 1..MaxThreads :
          (i \in TaskIds /\ tasks[i].kind \in StateKinds /\ tasks[i].pc # "done"
             /\ ~marker[tasks[i].kind][tasks[i].key])
          ~> (Done(i) \/ (i \in TaskIds /\ marker[tasks[i].kind][tasks[i].key]))
    /\ [](\A i \in TaskIds : tasks[i].kind \in StateKinds =>
            /\ tasks[i].out \in {<<>>, <<CompleteEvent(tasks[i].kind)>>}
            /\ tasks[i].out # <<>> <=> tasks[i].why = "complete"
            /\ tasks[i].why = "complete" => tasks[i].pc \in {"exiting", "done"}
            /\ tasks[i].pc = "done" => tasks[i].why \in {"complete", "stop"})
    /\ [][\A i \in TaskIds : tasks[i].kind \in StateKinds =>
            /\ tasks'[i].out # tasks[i].out => ~marker[tasks[i].kind][tasks[i].key]
            /\ (tasks[i].pc = "exiting" /\ tasks'[i].pc = "done")
                 => ~Registered(tasks[i].kind, tasks[i].key)']_vars

\* C8 witness: the first merge watcher emitted merge-complete and exited, and
\* a later register for a new merge was accepted
C8_Witness ==
    /\ Len(tasks) = 2
    /\ tasks[1].kind = "merge" /\ tasks[1].pc = "done" /\ tasks[1].why = "complete"
    /\ tasks[1].out = <<"merge-complete">> /\ ~tasks[1].stop
    /\ tasks[2].kind = "merge" /\ tasks[2].key = tasks[1].key
    /\ Registered("merge", tasks[2].key) /\ MERGE_WATCHERS[tasks[2].key] = 2

\* the events a file-change thread emitted that are worktree-removed
Removed(t) == SelectSeq(t.out, LAMBDA e : e = "worktree-removed")

\* C9: a file-change thread whose worktree folder is deleted exits; its next
\* existence check that is due finds the folder gone, emits worktree-removed
\* and leaves the loop; worktree-removed is emitted at most once, only by
\* such a check, as the last event of the thread (no files-changed follows,
\* a pending update is dropped), and when the thread has exited its key is
\* not in the registry.
C9_RemovedOnceThenExit ==
    /\ \A i \in 1..MaxThreads :
          (i \in TaskIds /\ tasks[i].kind = "file" /\ tasks[i].pc # "done"
             /\ ~root_exists[tasks[i].key])
          ~> Done(i)
    /\ [](\A i \in TaskIds : tasks[i].kind = "file" =>
            /\ Len(Removed(tasks[i])) <= 1
            /\ Len(Removed(tasks[i])) = 1 <=> tasks[i].why = "removed"
            /\ tasks[i].why = "removed"
                 => /\ tasks[i].out[Len(tasks[i].out)] = "worktree-removed"
                    /\ tasks[i].pc \in {"exiting", "done"}
            /\ tasks[i].pc = "done" => tasks[i].why \in {"removed", "stop", "failed"})
    /\ [][\A i \in TaskIds : tasks[i].kind = "file" =>
            /\ Len(Removed(tasks'[i])) > Len(Removed(tasks[i]))
                 => /\ ~root_exists[tasks[i].key]
                    /\ tasks[i].pc = "exist"
                    /\ tasks[i].since_check >= existence_check_interval
            /\ ( /\ tasks[i].pc = "exist" /\ tasks'[i].pc # "exist"
                 /\ tasks[i].since_check >= existence_check_interval
                 /\ ~root_exists[tasks[i].key] )
                 => /\ tasks'[i].out = Append(tasks[i].out, "worktree-removed")
                    /\ tasks'[i].pc = "exiting"
            /\ (tasks[i].pc = "exiting" /\ tasks'[i].pc = "done")
                 => ~Registered(tasks[i].kind, tasks[i].key)']_vars

\* C9 witness: the folder was deleted while an update was pending; the thread
\* emitted worktree-removed and left the loop with the update undelivered
C9_Witness ==
    \E i \in TaskIds :
        /\ tasks[i].kind = "file" /\ tasks[i].pc = "exiting" /\ tasks[i].why = "removed"
        /\ tasks[i].pending /\ ~tasks[i].stop
        /\ tasks[i].out = <<"worktree-removed">>

\* the step in which thread i leaves its start without a watch on a target
StartFails(i) ==
    /\ tasks[i].pc = "start"
    /\ tasks'[i].pc # "start"
    /\ ~tasks'[i].watching

\* C26: a watcher thread that fails to start (Watcher::new or watcher.watch
\* fails) has emitted nothing, has terminated and has left no entry for its
\* key in the registry, so that the key can be registered again.
C26_FailedStartUnregisters ==
    [][\A i \in TaskIds : StartFails(i) =>
        /\ tasks'[i].pc = "done"
        /\ tasks'[i].out = <<>>
        /\ ~Registered(tasks[i].kind, tasks[i].key)']_vars

\* the step in which shutdown_all_ptys returns to caller c
ShutdownReturns(c) == sd[c].ret = "none" /\ sd'[c].ret # "none"

\* C27: when shutdown_all_ptys returns, to whichever caller, no process of
\* a session that was registered is running any more: neither a session's
\* root nor a process descended from it.
C27_ReturnsAfterTermination ==
    [][\A c \in ShutdownCallers : ShutdownReturns(c) =>
        \A id \in DOMAIN reader_threads : SessionProcs(id) \cap alive' = {}]_vars

\* C31: a merge (rebase) watcher is registered and started only by a call
\* that found the marker at its test; a call that finds no marker, or cannot
\* resolve the git directory, returns with the registry and the threads as
\* they were, so nothing is inserted, started or emitted.
C31_StartsOnlyWithMarker ==
    [][/\ \A c \in WatchCallers :
            /\ (wc[c].pc = "marker" /\ wc'[c] # wc[c]) =>
                 /\ registry' = registry /\ tasks' = tasks
                 /\ IF marker[wc[c].kind][wc[c].key]
                    THEN \/ wc'[c].pc = "insert"
                         \/ wc'[c].pc = "idle" /\ wc'[c].ret = "not-started"
                    ELSE wc'[c].pc = "idle" /\ wc'[c].ret = "not-started"
            /\ (wc'[c].pc = "insert" /\ wc[c].pc # "insert" /\ wc'[c].kind \in StateKinds)
                 => wc[c].pc = "marker"
       /\ Len(tasks') > Len(tasks) =>
            \E c \in WatchCallers :
                /\ wc[c].pc = "insert" /\ wc'[c].ret = "started"
                /\ tasks' = Append(tasks, NewTask(wc[c].kind, wc[c].key))
                /\ Registered(wc[c].kind, wc[c].key)'
       /\ registry' # registry => tasks' # tasks]_vars

\* C31 witness: watch_merge_state returned without starting anything in a
\* worktree where no merge has ever been in progress
C31_Witness ==
    \E c \in WatchCallers :
        /\ wc[c].pc = "idle" /\ wc[c].ret = "not-started" /\ wc[c].kind = "merge"
        /\ markers_made = 0 /\ tasks = <<>> /\ DOMAIN MERGE_WATCHERS = {}

\* C32: a config watcher marks an update pending and restarts its quiet
\* timer only when it receives an event for a config file; an event for
\* another file (or a notify error) leaves the pending flag as it was, lets
\* the quiet timer run on, and emits nothing; config-changed is emitted only
\* for an update that was pending.
C32_OnlyConfigFilesCount ==
    [][\A i \in TaskIds :
        (tasks[i].kind = "config" /\ tasks'[i] # tasks[i]) =>
            LET t == tasks[i]
                n == tasks'[i] IN
            /\ (t.pc = "recv" /\ n.pc # "recv" /\ t.queue # <<>>
                  /\ Head(t.queue) # "change")
               => /\ n.pending = t.pending /\ n.burst = t.burst
                  /\ n.quiet >= t.quiet /\ n.out = t.out
            /\ (n.pending /\ ~t.pending)
               => t.pc = "recv" /\ t.queue # <<>> /\ Head(t.queue) = "change"
            /\ n.quiet < t.quiet
               => \/ t.pc = "recv" /\ t.queue # <<>> /\ Head(t.queue) = "change"
                  \/ ~n.pending
            /\ n.out # t.out
               => t.pending /\ n.out = Append(t.out, "config-changed")]_vars

\* C32 witness: the only config watcher has received two notifications, one
\* for a config file and one that was not; one update is pending, its quiet
\* period has run out all the same, and nothing has been emitted yet
C32_Witness ==
    /\ Len(tasks) = 1 /\ fs_sent = 2
    /\ tasks[1].kind = "config" /\ tasks[1].pc = "debounce"
    /\ tasks[1].queue = <<>> /\ tasks[1].pending /\ tasks[1].burst = 1
    /\ tasks[1].quiet = debounce_duration("config") /\ tasks[1].out = <<>>


(***************************************************************************)
(* Properties of the command resolution and of the caches.                 *)
(***************************************************************************)
\* the command the resolution is described to start for a request
DescribedCommand(req) ==
    IF req.command = <<"shell">>
    THEN [program |-> ResolvedShell(req), args |-> << <<"-l">> >>]
    ELSE IF is_file(<<Head(req.command)>>, req.files)
    THEN [program |-> <<Head(req.command)>>, args |-> Words(Tail(req.command))]
    ELSE [program |-> ResolvedShell(req), args |-> << <<"-c">>, req.command >>]

\* C33: the "shell" sentinel starts the resolved shell as a login shell; an
\* explicit command whose head token is an existing file is run directly,
\* any other explicit command is handed whole and unsplit to the resolved
\* shell (the override if given, else the cached user shell).
C33_CommandResolution ==
    (built # NotBuilt /\ request.command # <<>>)
        => built = DescribedCommand(request)

\* every call that has returned from a cache returned the cached value
ReturnsCached ==
    \A t \in CacheCallers :
        (cc[t].pc = "idle" /\ cc[t].cache # "none")
            => (cc[t].ret # NotCached /\ cc[t].ret = CACHED[cc[t].cache])

\* a filled cache keeps its value and no further discovery is run for it
CachedForGood ==
    \A cache \in Caches :
        CACHED[cache] # NotCached
            => /\ CACHED'[cache] = CACHED[cache]
               /\ discoveries'[cache] = discoveries[cache]
               /\ \A t \in CacheCallers :
                    ~ (cc'[t].pc = "discover" /\ cc'[t].cache = cache)

\* C34: the user's shell and the user's PATH are each discovered at most
\* once: later calls return the same value without a discovery, and calls
\* that race for the first discovery run it once, because the cache lock is
\* held across the discovery.
C34_DiscoveredOnce ==
    /\ [](ReturnsCached /\ \A cache \in Caches : discoveries[cache] <= 1)
    /\ [][CachedForGood]_vars

\* both threads called for the shell and got the one value discovered
C34_Witness ==
    /\ \A t \in CacheCallers :
        cc[t].pc = "idle" /\ cc[t].cache = "shell" /\ cc[t].ret = CACHED["shell"]
    /\ discoveries["shell"] = 1
    /\ cc_made >= 2


(***************************************************************************)
(* Properties of the replacement of watchers.                              *)
(***************************************************************************)
\* task i of the kind, which was cancelled, ends in this step while the
\* handle stored under its key is the one of another task
ReplacedTaskEnds(kind, i) ==
    /\ i \in TaskIds
    /\ tasks[i].kind = kind
    /\ tasks[i].pc = "exiting" /\ tasks[i].why = "stop"
    /\ tasks'[i].pc = "done"
    /\ Registered(kind, tasks[i].key)
    /\ registry[kind][tasks[i].key] # i

\* C35: when watch_config replaces the config watcher, the exit of the
\* replaced task never clears the handle of the newer task, so that the
\* stored handle stays the one of the most recently started task and
\* stop_config_watcher stops it.
C35_ReplacedExitKeepsHandle ==
    [][\A i \in TaskIds :
        ReplacedTaskEnds("config", i) => registry'["config"] = registry["config"]]_vars

\* C36: a file, merge or rebase watcher task that exits removes only its own
\* registration: when its key was cancelled and registered again before the
\* old task exited, the handle of the newer registration stays stored.
C36_ExitRemovesOwnRegistration ==
    [][\A i \in TaskIds, kind \in KeyedKinds :
        ReplacedTaskEnds(kind, i) => registry'[kind] = registry[kind]]_vars


(***************************************************************************)
(* Properties of sessions whose child pid is recorded as 0.                *)
(***************************************************************************)
\* the command thread takes a step of its signalling: the group signal of
\* interrupt_pty, the descendant discovery, or a send_signal
SignallingStep(c) ==
    /\ calls[c].pc \in {"group", "discover", "send"}
    /\ calls'[c] # calls[c]

\* C37: no operation signals pid 0 or process group 0: for a session whose
\* child pid is recorded as 0, interrupt_pty, kill_pty and force_kill_pty
\* neither signal nor discover descendants, and shutdown_all_ptys collects
\* no pid for it.
C37_NeverSignalsPidZero ==
    /\ [](\A c \in ShutdownCallers : \A k \in DOMAIN sd[c].all_pids : sd[c].all_pids[k] # 0)
    /\ [][\A c \in CmdCallers : SignallingStep(c) => calls[c].pid # 0]_vars


(***************************************************************************)
(* Properties of the shutdown command and of SHUTDOWN_IN_PROGRESS.         *)
(***************************************************************************)
\* the cascade has emitted its last progress event
CascadeComplete == \E k \in DOMAIN shutdown_events : shutdown_events[k].phase = "complete"

\* C38: the shutdown command exits the app only after the cascade has run to
\* "complete", also when it is invoked twice: the thread of the second
\* invocation never exits the app while the first is still in the cascade.
C38_ExitAfterComplete ==
    \A c \in ShutdownCallers : sd[c].pc = "exited" => CascadeComplete


(***************************************************************************)
(* Properties of a cancelled file-change task.                             *)
(***************************************************************************)
\* the steps of file-change task i after its stop signal was sent: an
\* emission is a single event and ends the loop pass, the stop check that
\* follows leaves the loop without emitting, and nothing is emitted later
OverlapBounded(i) ==
    LET t == tasks[i]
        u == tasks'[i] IN
    /\ (t.stop /\ u.out # t.out)
            => Len(u.out) = Len(t.out) + 1 /\ u.pc \in {"top", "exiting"}
    /\ (t.stop /\ t.pc = "top")
            => u.out = t.out /\ u.pc \in {"top", "exiting"}
    /\ (t.pc \in {"exiting", "done"}) => u.out = t.out /\ u.pc \in {"exiting", "done"}

\* C39: once stop_watching has returned, the cancelled file-change task
\* emits at most one further event before it exits, and none after it has
\* observed the stop signal.
C39_BoundedOverlap ==
    [][\A i \in TaskIds : tasks[i].kind = "file" => OverlapBounded(i)]_vars

\* a cancelled file-change task that had emitted has left on the stop signal
C39_Witness ==
    \E i \in TaskIds :
        /\ tasks[i].kind = "file" /\ tasks[i].pc = "done" /\ tasks[i].why = "stop"
        /\ tasks[i].out # <<>>

\* caller c enters shutdown_all_ptys in this step and finds the flag set
LaterCall(c) ==
    /\ sd[c].pc = "idle" /\ sd[c].ret = "none"
    /\ sd'[c] # sd[c]
    /\ SHUTDOWN_IN_PROGRESS

\* C40: SHUTDOWN_IN_PROGRESS is set by the first shutdown_all_ptys call, also
\* when no session exists, and never reset: every later call returns at once
\* without a signal, an event or a removal from the session tables, even if
\* sessions are registered then.
C40_FlagMonotonic ==
    /\ []((\E c \in ShutdownCallers : sd[c].pc # "idle" \/ sd[c].ret # "none")
            => SHUTDOWN_IN_PROGRESS)
    /\ [][SHUTDOWN_IN_PROGRESS => SHUTDOWN_IN_PROGRESS']_vars
    /\ [][\A c \in ShutdownCallers : LaterCall(c) =>
            /\ sd'[c].pc = "idle" /\ sd'[c].ret = "noop"
            /\ UNCHANGED <<signals, shutdown_events, pty_sessions, PTY_WRITERS,
                           PTY_MASTERS, alive>>]_vars

\* the first call found no session and completed; a session was registered
\* afterwards and the other call still returned as a no-op
C40_Witness ==
    \E c1, c2 \in ShutdownCallers :
        /\ Phases = <<"complete">>
        /\ sd[c1].ret = "complete"
        /\ sd[c2].ret = "noop"
        /\ DOMAIN pty_sessions # {}
        /\ \A p \in DOMAIN signals : signals[p] = <<>>

====
